---- MODULE Spec2Model ----
(***************************************************************************)
(* A model of the cross-source reconciliation engine of AnivestPC:         *)
(*   core/api/shikimori_api.py  (catalog adapter, ShikimoriAPI)            *)
(*   core/api/kodik_api.py      (playback adapter, KodikAPI)               *)
(*   core/api/anime_service.py  (HybridAnimeService)                       *)
(*                                                                         *)
(* Strings that the code inspects (URLs, ids with a source prefix, digit   *)
(* keys) are sequences of chunks: startswith is a test on the leading      *)
(* chunks, `x in s` a test on the chunks, lower() a map over the chunks.   *)
(* A Python exception is the field exc of an operator's result.            *)
(*                                                                         *)
(* Specifications:                                                         *)
(*   SpecEnrich    _enrich_with_kodik called on its own                    *)
(*   Spec          the public methods of HybridAnimeService                *)
(*   SpecEpisodes  KodikAPI.get_anime_episodes                             *)
(*   SpecPacing    concurrent catalog requests through _rate_limit_delay   *)
(*   SpecSeq       sequential catalog requests through _rate_limit_delay   *)
(*   SpecAdapters  _make_request of the two adapters called on its own     *)
(*   SpecVideoLink KodikAPI.get_video_link                                 *)
(*   SpecPure      the conversions to the canonical record and             *)
(*                 get_current_season                                      *)
(*   SpecEviction  the adapters' caches under a small max_size             *)
(*   SpecEngineCaches  the engine's caches under a small max_size          *)
(*   SpecToken     KodikAPI.get_token and reset_token, one call at a time  *)
(*   SpecSearchCap search_anime on catalog responses around the cap of 20  *)
(*   SpecSeasonal  ShikimoriAPI.get_seasonal_anime called on its own       *)
(*   SpecProbes    overlapping _check_image_availability calls, clear_cache*)
(*   SpecTokenRace overlapping get_token calls                             *)
(***************************************************************************)
EXTENDS Integers, Sequences, FiniteSets, TLC

VARIABLES
    now,                \* time.time(), whole seconds (engine) or ticks (pacing)
    ticks,              \* number of clock advances so far
    ops,                \* number of public calls so far
    kodik_token,        \* KodikAPI.token
    kodik_cache,        \* KodikAPI.cache, entries in insertion order
    shiki_cache,        \* ShikimoriAPI.cache, entries in insertion order
    last_request_time,  \* ShikimoriAPI.last_request_time
    merge_cache,        \* HybridAnimeService.merge_cache
    poster_cache,       \* HybridAnimeService.poster_cache
    max_size,           \* CACHE_CONFIG["max_size"]
    last,               \* the last completed call: what was asked, returned and sent
    pace,               \* the catalog requests under way: where each task stands in
                        \* _rate_limit_delay, and when each request was dispatched
    calls               \* the calls suspended at an await: where each caller stands
                        \* in _check_image_availability or get_token

vars == <<now, ticks, ops, kodik_token, kodik_cache, shiki_cache,
          last_request_time, merge_cache, poster_cache, max_size, last, pace, calls>>

-----------------------------------------------------------------------------
(* Bounds of the model *)

MaxTicks == 2
MaxOps == 2
NumTasks == 7
MaxClock == 6
MaxRequests == 10

(* Program constants *)

MergeTTL == 300
KodikCacheTimeout == 300
ShikiCacheTimeout == 600
CacheMaxSize == 1000
RateLimit == 5
SearchEnrichCap == 20

(* None for an optional integer; the empty chunk sequence for an optional string *)
NoneInt == -1
NoId == 0
BadNumber == -2

-----------------------------------------------------------------------------
(* Strings as chunk sequences *)

Lower(c) ==
    CASE c = "ERROR" -> "error"
      [] c = "Missing" -> "missing"
      [] c = "NotFound" -> "notfound"
      [] OTHER -> c

Contains(s, c) == \E i \in 1..Len(s) : Lower(s[i]) = c

StartsWith(s, p) == Len(s) >= Len(p) /\ SubSeq(s, 1, Len(p)) = p

ErrorIndicators == {"404", "not_found", "notfound", "error", "missing", "no+image"}

PlaceholderHost == <<"https://", "via.placeholder.com">>

PlaceholderURL == PlaceholderHost \o <<"/300x400/8B5CF6/FFFFFF?text=", "Net+postera">>

ShikimoriHost == <<"https://", "shikimori.one">>

StartsWithHttp(s) == Len(s) >= 1 /\ s[1] \in {"http://", "https://"}

\* The first element of a sequence satisfying a test, as Python's for/break finds it
RECURSIVE FirstNonEmpty(_)
FirstNonEmpty(seq) ==
    IF seq = <<>> THEN <<>>
    ELSE IF Head(seq) # <<>> THEN Head(seq)
    ELSE FirstNonEmpty(Tail(seq))

\* get_poster_url: image is the sizes original, preview, x96, x48 in that order
get_poster_url(shikimori_anime) ==
    LET poster_url == FirstNonEmpty(shikimori_anime.image)
        full == IF StartsWith(poster_url, <<"/">>) THEN ShikimoriHost \o poster_url
                ELSE IF ~StartsWithHttp(poster_url) THEN ShikimoriHost \o poster_url
                ELSE poster_url
    IN  IF poster_url = <<>> THEN PlaceholderURL
        ELSE IF \E ind \in ErrorIndicators : Contains(full, ind) THEN PlaceholderURL
        ELSE full

\* extract_year_from_date: aired_on is the date split at '-', <<>> for None;
\* a leading component int() rejects is BadNumber
extract_year_from_date(date_string) ==
    IF date_string = <<>> THEN NoneInt
    ELSE IF Head(date_string) = BadNumber THEN NoneInt
    ELSE Head(date_string)

\* x or y on strings
OrStr(x, y) == IF x # "" THEN x ELSE y

NoRecord == [exc |-> TRUE]

\* convert_shikimori_format: raises KeyError when the raw record has no id
convert_shikimori_format(shikimori_anime) ==
    IF shikimori_anime.id = NoId THEN [exc |-> TRUE, val |-> NoRecord]
    ELSE [exc |-> FALSE,
          val |-> [id |-> <<"shiki_", ToString(shikimori_anime.id)>>,
                   shikimori_id |-> shikimori_anime.id,
                   title |-> OrStr(shikimori_anime.russian, shikimori_anime.name),
                   title_orig |-> shikimori_anime.name,
                   year |-> extract_year_from_date(shikimori_anime.aired_on),
                   link |-> "",
                   kodik_id |-> "",
                   translation |-> "",
                   quality |-> "",
                   episodes_count |-> shikimori_anime.episodes,
                   material_data |->
                       [poster_url |-> get_poster_url(shikimori_anime),
                        anime_poster_url |-> get_poster_url(shikimori_anime),
                        anime_kind |-> shikimori_anime.kind]]]

-----------------------------------------------------------------------------
(* The response caches: dicts of key -> (data, timestamp), in insertion order *)

CacheHas(cache, key) == \E i \in 1..Len(cache) : cache[i].key = key

CacheGet(cache, key) == cache[CHOOSE i \in 1..Len(cache) : cache[i].key = key]

\* self.cache[key] = (data, time.time()): an existing key keeps its place
CacheSet(cache, key, data, ts) ==
    IF CacheHas(cache, key)
    THEN [i \in 1..Len(cache) |->
             IF cache[i].key = key THEN [key |-> key, data |-> data, ts |-> ts]
             ELSE cache[i]]
    ELSE Append(cache, [key |-> key, data |-> data, ts |-> ts])

\* sorted(cache.items(), key=lambda x: x[1][1]): stable, by stored time
RECURSIVE InsertByTs(_, _)
InsertByTs(sorted, e) ==
    IF sorted = <<>> THEN <<e>>
    ELSE IF Head(sorted).ts <= e.ts THEN <<Head(sorted)>> \o InsertByTs(Tail(sorted), e)
    ELSE <<e>> \o sorted

RECURSIVE SortedByTs(_)
SortedByTs(cache) ==
    IF cache = <<>> THEN <<>>
    ELSE InsertByTs(SortedByTs(SubSeq(cache, 1, Len(cache) - 1)), cache[Len(cache)])

\* if len(cache) > max_size: delete the first len(cache) // 4 of the sorted items
EvictOldest(cache, ceiling) ==
    IF Len(cache) > ceiling
    THEN LET sorted_cache == SortedByTs(cache)
             old == {sorted_cache[i].key : i \in 1..(Len(cache) \div 4)}
             Keep(e) == e.key \notin old
         IN  SelectSeq(cache, Keep)
    ELSE cache

\* list.sort: stable; Before(a, b) says a sorts strictly before b
InsertSorted(sorted, e, Before(_, _)) ==
    LET js == {j \in 1..Len(sorted) : Before(e, sorted[j])}
        k == IF js = {} THEN Len(sorted) + 1
             ELSE CHOOSE j \in js : \A j2 \in js : j <= j2
    IN  SubSeq(sorted, 1, k - 1) \o <<e>> \o SubSeq(sorted, k, Len(sorted))

StableSort(seq, Before(_, _)) ==
    LET sorted[i \in 0..Len(seq)] ==
            IF i = 0 THEN <<>> ELSE InsertSorted(sorted[i - 1], seq[i], Before)
    IN  sorted[Len(seq)]

-----------------------------------------------------------------------------
(* KodikAPI *)

NoToken == 0
NumTestTokens == 3

\* What one call returns: a value, None (none = TRUE) or an exception (exc = TRUE)
Ret(st, v) == [st |-> st, exc |-> FALSE, none |-> FALSE, val |-> v]
RetNone(st) == [st |-> st, exc |-> FALSE, none |-> TRUE, val |-> <<>>]
Raise(st) == [st |-> st, exc |-> TRUE, none |-> FALSE, val |-> <<>>]

\* One observed event of a call: a request sent (token_probe, kodik, shiki, head), a
\* playback lookup and what it returned (lookup), or a logged error (error)
Event(kind, key, ok, data) == [kind |-> kind, key |-> key, ok |-> ok, data |-> data]

Logged(st, e) == [st EXCEPT !.log = Append(@, e)]

\* get_token: the candidates are probed in list order; env.token_ok holds the
\* candidates whose probe answers 200 with a body whose results is not None
RECURSIVE ProbeTokens(_, _, _)
ProbeTokens(st, env, i) ==
    IF i > NumTestTokens THEN st
    ELSE LET sent == Logged(st, Event("token_probe", <<ToString(i)>>,
                                       i \in env.token_ok, <<>>))
         IN  IF i \in env.token_ok THEN [sent EXCEPT !.kodik_token = i]
             ELSE ProbeTokens(sent, env, i + 1)

\* Mutant: get_token that probes although a token is held
KodikGetToken_Reprobe(st, env) == ProbeTokens(st, env, 1)

KodikGetToken(st, env) ==
    IF st.kodik_token # NoToken THEN st ELSE ProbeTokens(st, env, 1)

\* Mutant: _make_request that keeps its token on a 401 or 403
KodikMakeRequest_KeepToken(st0, env, endpoint, params) ==
    LET st1 == IF st0.kodik_token = NoToken THEN KodikGetToken(st0, env) ELSE st0
        cache_key == <<"kodik", endpoint>> \o params
    IN  IF st1.kodik_token = NoToken THEN RetNone(st1)
        ELSE IF CacheHas(st1.kodik_cache, cache_key)
                /\ st1.now - CacheGet(st1.kodik_cache, cache_key).ts < KodikCacheTimeout
        THEN Ret(st1, CacheGet(st1.kodik_cache, cache_key).data)
        ELSE LET resp == env.kodik[params[1]]
                 st2 == Logged(st1, Event("kodik", cache_key, resp.status = "ok", <<>>))
             IN  CASE resp.status = "ok" ->
                        Ret([st2 EXCEPT !.kodik_cache =
                                EvictOldest(CacheSet(@, cache_key, resp.data, st2.now),
                                            st2.max_size)],
                            resp.data)
                   [] OTHER -> RetNone(st2)

\* KodikAPI._make_request(endpoint, params); env.kodik[params[1]] is what the
\* provider answers to a request with these parameters
KodikMakeRequest(st0, env, endpoint, params) ==
    LET st1 == IF st0.kodik_token = NoToken THEN KodikGetToken(st0, env) ELSE st0
        cache_key == <<"kodik", endpoint>> \o params
    IN  IF st1.kodik_token = NoToken THEN RetNone(st1)
        ELSE IF CacheHas(st1.kodik_cache, cache_key)
                /\ st1.now - CacheGet(st1.kodik_cache, cache_key).ts < KodikCacheTimeout
        THEN Ret(st1, CacheGet(st1.kodik_cache, cache_key).data)
        ELSE LET resp == env.kodik[params[1]]
                 st2 == Logged(st1, Event("kodik", cache_key, resp.status = "ok", <<>>))
             IN  CASE resp.status = "ok" ->
                        Ret([st2 EXCEPT !.kodik_cache =
                                EvictOldest(CacheSet(@, cache_key, resp.data, st2.now),
                                            st2.max_size)],
                            resp.data)
                   [] resp.status \in {"http401", "http403"} ->
                        RetNone([st2 EXCEPT !.kodik_token = NoToken])
                   [] OTHER -> RetNone(st2)

\* search_by_shikimori_id
KodikSearchByShikimoriId(st, env, shikimori_id) ==
    KodikMakeRequest(st, env, "search", <<"shikimori_id">> \o shikimori_id)

\* title.strip()
Strip(title) == IF title = " " THEN "" ELSE title

\* search_by_title: None without a request on a blank title
KodikSearchByTitle(st, env, title) ==
    IF Strip(title) = "" THEN RetNone(st)
    ELSE KodikMakeRequest(st, env, "search", <<"title", Strip(title)>>)

\* int(s) of a key of the seasons map: the key is its characters; ParseFails is
\* the ValueError on an empty key or a character that is no digit
Digits == {"0", "1", "2", "3"}

DigitValue(c) == CASE c = "0" -> 0 [] c = "1" -> 1 [] c = "2" -> 2 [] c = "3" -> 3

ParseFails(s) == s = <<>> \/ \E i \in 1..Len(s) : s[i] \notin Digits

RECURSIVE ParseInt(_)
ParseInt(s) ==
    IF s = <<>> THEN 0
    ELSE ParseInt(SubSeq(s, 1, Len(s) - 1)) * 10 + DigitValue(s[Len(s)])

\* The episodes of one season, in the order of the map
SeasonEpisodes(season) ==
    [i \in 1..Len(season.episodes) |->
        [season |-> ParseInt(season.key),
         episode |-> ParseInt(season.episodes[i].key),
         title |-> season.episodes[i].title,
         link |-> season.episodes[i].link]]

RECURSIVE FlattenSeasons(_)
FlattenSeasons(seasons) ==
    IF seasons = <<>> THEN <<>>
    ELSE SeasonEpisodes(Head(seasons)) \o FlattenSeasons(Tail(seasons))

SeasonsUnparsable(seasons) ==
    \E i \in 1..Len(seasons) :
        \/ Len(seasons[i].episodes) > 0 /\ ParseFails(seasons[i].key)
        \/ \E j \in 1..Len(seasons[i].episodes) : ParseFails(seasons[i].episodes[j].key)

EpisodeBefore(a, b) ==
    a.season < b.season \/ (a.season = b.season /\ a.episode < b.episode)

\* KodikAPI.get_anime_episodes(kodik_id): [] when the request fails, the results
\* are empty or anything raises
KodikGetAnimeEpisodes(st, env, kodik_id) ==
    LET result == KodikMakeRequest(st, env, "search", <<"id">> \o kodik_id)
    IN  IF result.none \/ result.val = <<>> THEN Ret(result.st, <<>>)
        ELSE IF SeasonsUnparsable(result.val[1].seasons) THEN Ret(result.st, <<>>)
        ELSE Ret(result.st,
                 StableSort(FlattenSeasons(result.val[1].seasons), EpisodeBefore))

\* Mutant: get_video_link without the fallback to the first episode
KodikGetVideoLink_NoFallback(st, env, kodik_id, season, episode) ==
    LET eps == KodikGetAnimeEpisodes(st, env, kodik_id)
        exact == {i \in 1..Len(eps.val) :
                     eps.val[i].season = season /\ eps.val[i].episode = episode}
    IN  IF exact # {}
        THEN Ret(eps.st, eps.val[CHOOSE i \in exact : \A j \in exact : i <= j].link)
        ELSE RetNone(eps.st)

\* KodikAPI.get_video_link(kodik_id, season, episode)
KodikGetVideoLink(st, env, kodik_id, season, episode) ==
    LET eps == KodikGetAnimeEpisodes(st, env, kodik_id)
        exact == {i \in 1..Len(eps.val) :
                     eps.val[i].season = season /\ eps.val[i].episode = episode}
    IN  IF exact # {}
        THEN Ret(eps.st, eps.val[CHOOSE i \in exact : \A j \in exact : i <= j].link)
        ELSE IF eps.val # <<>> THEN Ret(eps.st, eps.val[1].link)
        ELSE RetNone(eps.st)

-----------------------------------------------------------------------------
(* HybridAnimeService: poster probes, merge and enrichment *)

\* _check_image_availability: env.head_ok holds the URLs whose HEAD request
\* answers 200 with an image content type
CheckImageAvailability(st, env, url) ==
    IF url = <<>> THEN Ret(st, FALSE)
    ELSE IF url \in DOMAIN st.poster_cache THEN Ret(st, st.poster_cache[url])
    ELSE LET ok == url \in env.head_ok
             sent == Logged(st, Event("head", url, ok, <<>>))
         IN  Ret([sent EXCEPT !.poster_cache = (url :> ok) @@ @], ok)

TranslationAbsent == "<absent>"
TranslationNull == "<null>"

\* Mutant: x or y that takes only None for falsy
OrInt_ZeroKept(x, y) == IF x # NoneInt THEN x ELSE y

\* x or y on optional integers: None and 0 are falsy
OrInt(x, y) == IF x # NoneInt /\ x # 0 THEN x ELSE y

\* extract_kodik_data of the first result: anime.get('translation', {}).get('title')
\* raises when the provider sends translation: null
extract_kodik_data(results) ==
    LET anime == results[1]
    IN  IF anime.translation = TranslationNull THEN [exc |-> TRUE]
        ELSE [exc |-> FALSE,
              kodik_id |-> anime.id,
              link |-> anime.link,
              translation |-> IF anime.translation = TranslationAbsent
                              THEN "Unknown" ELSE anime.translation,
              quality |-> IF anime.quality = "" THEN "SD" ELSE anime.quality,
              episodes_count |-> anime.episodes_count]

\* should_replace_poster of _merge_anime_data
ShouldReplacePoster(shikimori_poster) ==
    \/ StartsWith(shikimori_poster, PlaceholderHost)
    \/ Contains(shikimori_poster, "404")
    \/ shikimori_poster = <<>>
    \/ \E ind \in {"not_found", "notfound", "error", "missing", "no+image"} :
           Contains(shikimori_poster, ind)

WithPosters(merged, url) ==
    [merged EXCEPT !.material_data.poster_url = url,
                   !.material_data.anime_poster_url = url]

\* Mutant: the playback poster is probed before it replaces a placeholder
ArbitratePoster_ProbeFirst(st, env, merged, kodik_poster) ==
    LET shikimori_poster == merged.material_data.poster_url
        c == CheckImageAvailability(st, env, kodik_poster)
    IN  IF ShouldReplacePoster(shikimori_poster) /\ kodik_poster # <<>>
        THEN IF c.val THEN Ret(c.st, WithPosters(merged, kodik_poster))
             ELSE Ret(c.st, WithPosters(merged, PlaceholderURL))
        ELSE Ret(st, merged)

\* Mutant: the catalog poster is kept when neither poster is reachable
ArbitratePoster_KeepDead(st, env, merged, kodik_poster) ==
    LET shikimori_poster == merged.material_data.poster_url
    IN  IF ShouldReplacePoster(shikimori_poster) /\ kodik_poster # <<>>
        THEN Ret(st, WithPosters(merged, kodik_poster))
        ELSE IF shikimori_poster # <<>> /\ ~StartsWith(shikimori_poster, PlaceholderHost)
        THEN LET c1 == CheckImageAvailability(st, env, shikimori_poster)
             IN  IF c1.val THEN Ret(c1.st, merged)
                 ELSE IF kodik_poster = <<>> THEN Ret(c1.st, merged)
                 ELSE LET c2 == CheckImageAvailability(c1.st, env, kodik_poster)
                      IN  IF c2.val THEN Ret(c2.st, WithPosters(merged, kodik_poster))
                          ELSE Ret(c2.st, merged)
        ELSE Ret(st, merged)

\* The poster arbitration of _merge_anime_data, run only when a playback match exists
ArbitratePoster(st, env, merged, kodik_poster) ==
    LET shikimori_poster == merged.material_data.poster_url
    IN  IF ShouldReplacePoster(shikimori_poster) /\ kodik_poster # <<>>
        THEN Ret(st, WithPosters(merged, kodik_poster))
        ELSE IF shikimori_poster # <<>> /\ ~StartsWith(shikimori_poster, PlaceholderHost)
        THEN LET c1 == CheckImageAvailability(st, env, shikimori_poster)
             IN  IF c1.val THEN Ret(c1.st, merged)
                 ELSE IF kodik_poster = <<>>
                 THEN Ret(c1.st, WithPosters(merged, PlaceholderURL))
                 ELSE LET c2 == CheckImageAvailability(c1.st, env, kodik_poster)
                      IN  IF c2.val THEN Ret(c2.st, WithPosters(merged, kodik_poster))
                          ELSE Ret(c2.st, WithPosters(merged, PlaceholderURL))
        ELSE Ret(st, merged)

\* _merge_anime_data(shikimori_anime, kodik_results): kodik_results is the return
\* of the playback lookup (none, or the results list in val)
MergeAnimeData(st, env, shikimori_anime, kodik_results) ==
    LET conv == convert_shikimori_format(shikimori_anime)
    IN  IF conv.exc THEN Raise(st)
        ELSE IF kodik_results.none \/ kodik_results.val = <<>> THEN Ret(st, conv.val)
        ELSE LET kodik_anime == kodik_results.val[1]
                 kodik_data == extract_kodik_data(kodik_results.val)
             IN  IF kodik_data.exc THEN Raise(st)
                 ELSE ArbitratePoster(st, env,
                        [conv.val EXCEPT
                            !.kodik_id = kodik_data.kodik_id,
                            !.link = kodik_data.link,
                            !.translation = kodik_data.translation,
                            !.quality = kodik_data.quality,
                            !.episodes_count =
                                OrInt(kodik_data.episodes_count, conv.val.episodes_count)],
                        kodik_anime.material_data.poster_url)

MergeKey(id) == <<"merge_", ToString(id)>>

\* A playback lookup of _enrich_with_kodik returned
LookedUp(found, key) ==
    [found EXCEPT !.st = Logged(found.st, Event("lookup", key,
                                                ~found.none /\ found.val # <<>>,
                                                found.val))]

\* Mutant: the title lookup made whatever the lookup by id found
LookupByTitle_Always(by_id, env, title) ==
    IF title # ""
    THEN LookedUp(KodikSearchByTitle(by_id.st, env, title), <<"title", title>>)
    ELSE by_id

\* The title lookup, made when the lookup by id found nothing and there is a title
LookupByTitle(by_id, env, title) ==
    IF (by_id.none \/ by_id.val = <<>>) /\ title # ""
    THEN LookedUp(KodikSearchByTitle(by_id.st, env, title), <<"title", title>>)
    ELSE by_id

\* The playback lookup of _enrich_with_kodik: by catalog id, then by title
EnrichLookup(st, env, shikimori_anime) ==
    LookupByTitle(
        LookedUp(KodikSearchByShikimoriId(st, env, <<ToString(shikimori_anime.id)>>),
                 <<"shikimori_id">>),
        env, OrStr(shikimori_anime.russian, shikimori_anime.name))

\* The except branch of _enrich_with_kodik: logger.error, then the catalog-only record
EnrichFallback(st0, shikimori_anime) ==
    LET conv == convert_shikimori_format(shikimori_anime)
        st == Logged(st0, Event("error", <<"enrich">>, FALSE, <<>>))
    IN  IF conv.exc THEN Raise(st) ELSE Ret(st, conv.val)

\* _merge_anime_data on what the lookup found
MergeFound(found, env, shikimori_anime) ==
    MergeAnimeData(found.st, env, shikimori_anime, found)

\* Mutant: the except branch caches the catalog-only record it returns
EnrichStore_FallbackCached(m, cache_key, shikimori_anime) ==
    IF m.exc /\ EnrichFallback(m.st, shikimori_anime).exc
    THEN EnrichFallback(m.st, shikimori_anime)
    ELSE IF m.exc
    THEN Ret([EnrichFallback(m.st, shikimori_anime).st EXCEPT !.merge_cache =
                 CacheSet(@, cache_key, EnrichFallback(m.st, shikimori_anime).val,
                          m.st.now)],
             EnrichFallback(m.st, shikimori_anime).val)
    ELSE Ret([m.st EXCEPT !.merge_cache = CacheSet(@, cache_key, m.val, m.st.now)],
             m.val)

\* The end of the try block: the merged record is cached and returned; a raise
\* goes to the except branch
EnrichStore(m, cache_key, shikimori_anime) ==
    IF m.exc THEN EnrichFallback(m.st, shikimori_anime)
    ELSE Ret([m.st EXCEPT !.merge_cache = CacheSet(@, cache_key, m.val, m.st.now)],
             m.val)

\* Mutant: an entry exactly MergeTTL old still counts as fresh
EnrichWithKodik_TTLInclusive(st, env, shikimori_anime) ==
    IF shikimori_anime.id = NoId THEN EnrichFallback(st, shikimori_anime)
    ELSE IF CacheHas(st.merge_cache, MergeKey(shikimori_anime.id))
            /\ st.now - CacheGet(st.merge_cache, MergeKey(shikimori_anime.id)).ts
                   <= MergeTTL
    THEN Ret(st, CacheGet(st.merge_cache, MergeKey(shikimori_anime.id)).data)
    ELSE EnrichStore(MergeFound(EnrichLookup(st, env, shikimori_anime), env,
                                shikimori_anime),
                     MergeKey(shikimori_anime.id), shikimori_anime)

\* _enrich_with_kodik(shikimori_anime)
EnrichWithKodik(st, env, shikimori_anime) ==
    IF shikimori_anime.id = NoId THEN EnrichFallback(st, shikimori_anime)
    ELSE IF CacheHas(st.merge_cache, MergeKey(shikimori_anime.id))
            /\ st.now - CacheGet(st.merge_cache, MergeKey(shikimori_anime.id)).ts
                   < MergeTTL
    THEN Ret(st, CacheGet(st.merge_cache, MergeKey(shikimori_anime.id)).data)
    ELSE EnrichStore(MergeFound(EnrichLookup(st, env, shikimori_anime), env,
                                shikimori_anime),
                     MergeKey(shikimori_anime.id), shikimori_anime)

-----------------------------------------------------------------------------
(* ShikimoriAPI *)

\* _rate_limit_delay on the engine's clock of whole seconds: the sleep of at most
\* 1/rate_limit s does not move it; last_request_time is set
ShikiRateLimitDelay(st) ==
    IF RateLimit <= 0 THEN st ELSE [st EXCEPT !.last_request_time = st.now]

\* ShikimoriAPI._make_request(endpoint, params); env.shiki[endpoint] is what the
\* provider answers
ShikiMakeRequest(st0, env, endpoint, params) ==
    LET cache_key == <<"shiki", endpoint>> \o params
    IN  IF CacheHas(st0.shiki_cache, cache_key)
           /\ st0.now - CacheGet(st0.shiki_cache, cache_key).ts < ShikiCacheTimeout
        THEN Ret(st0, CacheGet(st0.shiki_cache, cache_key).data)
        ELSE LET resp == env.shiki[endpoint]
                 st1 == Logged(ShikiRateLimitDelay(st0),
                               Event("shiki", cache_key, resp.status = "ok", <<>>))
             IN  IF resp.status = "ok"
                 THEN Ret([st1 EXCEPT !.shiki_cache =
                              EvictOldest(CacheSet(@, cache_key, resp.data, st1.now),
                                          st1.max_size)],
                          resp.data)
                 ELSE RetNone(st1)

NoYear == 0

\* The season parameter ShikimoriAPI.search_anime derives from the filters
SeasonParam(filters) ==
    IF filters.season # "" THEN <<"season", filters.season>>
    ELSE IF filters.year_from # NoYear /\ filters.year_to # NoYear
    THEN IF filters.year_from = filters.year_to
         THEN <<"season", ToString(filters.year_from)>> ELSE <<>>
    ELSE IF filters.year_from # NoYear THEN <<"season", ToString(filters.year_from)>>
    ELSE IF filters.year_to # NoYear THEN <<"season", ToString(filters.year_to)>>
    ELSE IF filters.year # NoYear THEN <<"season", ToString(filters.year)>>
    ELSE <<>>

\* ShikimoriAPI.search_anime(query, filters): result if result else []
ShikiSearchAnime(st, env, query, filters) ==
    LET params == <<"limit", "50">>
                  \o (IF query # "" THEN <<"search", query>> ELSE <<>>)
                  \o SeasonParam(filters) \o <<"order", "popularity">>
        r == ShikiMakeRequest(st, env, "search", params)
    IN  IF r.none THEN Ret(r.st, <<>>) ELSE r

\* ShikimoriAPI.get_anime(anime_id): the detail record, a one-element answer
ShikiGetAnime(st, env, anime_id) ==
    ShikiMakeRequest(st, env, "detail", anime_id)

AdapterKinds == {"tv", "movie", "ova", "ona", "special"}

\* float(anime.get('score', 0) or 0), int(anime.get('scored_by', 0) or 0) raise
\* ValueError on a string that is no number
Unparsable(anime) == anime.score = BadNumber \/ anime.scored_by = BadNumber

Truncate(seq, n) == SubSeq(seq, 1, IF Len(seq) < n THEN Len(seq) ELSE n)

\* popularity_score = scored_by * 0.1 + score * 1000, in tenths
PopularityScore(anime) == anime.scored_by + anime.score * 1000

MorePopular(a, b) == PopularityScore(a) > PopularityScore(b)

HigherRated(a, b) ==
    a.score > b.score \/ (a.score = b.score /\ a.scored_by > b.scored_by)

\* The accept rule of get_seasonal_anime: score >= 5.0 or scored_by >= 500
SeasonalAccepts(anime) ==
    anime.kind \in AdapterKinds /\ (anime.score >= 50 \/ anime.scored_by >= 500)

\* The accept rule of get_popular_anime: score >= 6.0 or scored_by >= 1000
PopularAccepts(anime) ==
    anime.kind \in AdapterKinds /\ (anime.score >= 60 \/ anime.scored_by >= 1000)

\* get_current_season(): env.today is datetime.now()
get_current_season(today) ==
    IF today.month \in {1, 2, 3}
    THEN [season |-> "winter",
          year |-> IF today.month = 12 THEN today.year + 1 ELSE today.year]
    ELSE IF today.month \in {4, 5, 6} THEN [season |-> "spring", year |-> today.year]
    ELSE IF today.month \in {7, 8, 9} THEN [season |-> "summer", year |-> today.year]
    ELSE [season |-> "fall", year |-> today.year]

\* get_seasonal_anime sending the relaxed request whatever the strict one gave
ShikiGetSeasonalAnime_AlwaysRelaxed(st, env, season0, year0, limit) ==
    LET current == get_current_season(env.today)
        season == IF season0 = "" \/ year0 = NoYear THEN current.season ELSE season0
        year == IF season0 = "" \/ year0 = NoYear THEN current.year ELSE year0
        strict == ShikiMakeRequest(st, env, "seasonal",
                     <<"limit", ToString(limit * 3), "season", season, ToString(year)>>)
        relaxed == ShikiMakeRequest(strict.st, env, "year",
                     <<"limit", ToString(limit * 2), "season", ToString(year)>>)
        all_results == IF strict.none \/ strict.val = <<>> THEN relaxed
                       ELSE [strict EXCEPT !.st = relaxed.st]
    IN  IF all_results.none \/ all_results.val = <<>> THEN Ret(all_results.st, <<>>)
        ELSE IF \E i \in 1..Len(all_results.val) : Unparsable(all_results.val[i])
        THEN Raise(all_results.st)
        ELSE Ret(all_results.st,
                 Truncate(StableSort(SelectSeq(all_results.val, SeasonalAccepts),
                                   MorePopular), limit))

\* ShikimoriAPI.get_seasonal_anime(season, year, limit)
ShikiGetSeasonalAnime(st, env, season0, year0, limit) ==
    LET current == get_current_season(env.today)
        season == IF season0 = "" \/ year0 = NoYear THEN current.season ELSE season0
        year == IF season0 = "" \/ year0 = NoYear THEN current.year ELSE year0
        strict == ShikiMakeRequest(st, env, "seasonal",
                     <<"limit", ToString(limit * 3), "season", season, ToString(year)>>)
        relaxed == ShikiMakeRequest(strict.st, env, "year",
                     <<"limit", ToString(limit * 2), "season", ToString(year)>>)
        all_results == IF strict.none \/ strict.val = <<>> THEN relaxed ELSE strict
    IN  IF all_results.none \/ all_results.val = <<>> THEN Ret(all_results.st, <<>>)
        ELSE IF \E i \in 1..Len(all_results.val) : Unparsable(all_results.val[i])
        THEN Raise(all_results.st)
        ELSE Ret(all_results.st,
                 Truncate(StableSort(SelectSeq(all_results.val, SeasonalAccepts),
                                   MorePopular), limit))

\* ShikimoriAPI.get_popular_anime(limit)
ShikiGetPopularAnime(st, env, limit) ==
    LET all_results == ShikiMakeRequest(st, env, "popular",
                          <<"limit", ToString(limit * 2)>>)
    IN  IF all_results.none \/ all_results.val = <<>> THEN Ret(all_results.st, <<>>)
        ELSE IF \E i \in 1..Len(all_results.val) : Unparsable(all_results.val[i])
        THEN Raise(all_results.st)
        ELSE Ret(all_results.st,
                 Truncate(StableSort(SelectSeq(all_results.val, PopularAccepts),
                                   HigherRated), limit))

-----------------------------------------------------------------------------
(* HybridAnimeService: the public methods *)

RECURSIVE EnrichAll(_, _, _)

Prepended(v, rest) == IF rest.exc THEN rest ELSE Ret(rest.st, <<v>> \o rest.val)

EnrichRest(first, env, records) ==
    IF first.exc THEN Raise(first.st)
    ELSE Prepended(first.val, EnrichAll(first.st, env, records))

\* for anime in records: enriched_results.append(await self._enrich_with_kodik(anime)),
\* one after the other; an exception ends the loop
EnrichAll(st, env, records) ==
    IF records = <<>> THEN Ret(st, <<>>)
    ELSE EnrichRest(EnrichWithKodik(st, env, Head(records)), env, Tail(records))

SearchKinds == {"tv", "movie", "ova", "ona", "special", "music"}

KindAllowed(anime) == anime.kind \in SearchKinds

\* The year-range filter of search_anime, applied when both bounds are given and differ
YearFiltered(records, filters) ==
    IF filters.year_from # NoYear /\ filters.year_to # NoYear
       /\ filters.year_from # filters.year_to
    THEN LET InRange(anime) ==
                 LET anime_year == extract_year_from_date(anime.aired_on)
                 IN  /\ anime_year # NoneInt /\ anime_year # 0
                     /\ filters.year_from <= anime_year
                     /\ anime_year <= filters.year_to
         IN  SelectSeq(records, InRange)
    ELSE records

Caught(st, what) == Logged(st, Event("error", <<what>>, FALSE, <<>>))

\* The except branch of a listing method: logger.error, return []
ListOrCaught(enriched, what) ==
    IF enriched.exc THEN Ret(Caught(enriched.st, what), <<>>) ELSE enriched

\* search_anime after the catalog search returned
SearchEnriched(shikimori_results, env, filters) ==
    IF shikimori_results.val = <<>> THEN Ret(shikimori_results.st, <<>>)
    ELSE ListOrCaught(
             EnrichAll(shikimori_results.st, env,
                       Truncate(YearFiltered(SelectSeq(shikimori_results.val, KindAllowed),
                                             filters),
                                SearchEnrichCap)),
             "search")

\* HybridAnimeService.search_anime(query, filters)
HybridSearchAnime(st, env, query, filters) ==
    SearchEnriched(ShikiSearchAnime(st, env, query, filters), env, filters)

\* The try block of get_popular_anime after the adapter returned
PopularEnriched(shikimori_results, env) ==
    IF shikimori_results.exc THEN shikimori_results
    ELSE IF shikimori_results.val = <<>> THEN Ret(shikimori_results.st, <<>>)
    ELSE EnrichAll(shikimori_results.st, env, shikimori_results.val)

\* Mutant: get_popular_anime without its try
HybridGetPopularAnime_NoTry(st, env, limit) ==
    PopularEnriched(ShikiGetPopularAnime(st, env, limit), env)

\* HybridAnimeService.get_popular_anime(limit)
HybridGetPopularAnime(st, env, limit) ==
    ListOrCaught(PopularEnriched(ShikiGetPopularAnime(st, env, limit), env), "popular")

\* The try block of get_seasonal_anime after the adapter returned; none: the adapter
\* returned nothing
SeasonalEnriched(shikimori_results, env) ==
    IF shikimori_results.exc THEN shikimori_results
    ELSE IF shikimori_results.val = <<>> THEN RetNone(shikimori_results.st)
    ELSE EnrichAll(shikimori_results.st, env, shikimori_results.val)

\* The two fallbacks of get_seasonal_anime: return await self.get_popular_anime(limit)
SeasonalOrPopular(tried, env, limit) ==
    IF tried.exc \/ tried.none
    THEN HybridGetPopularAnime(IF tried.exc THEN Caught(tried.st, "seasonal")
                               ELSE tried.st,
                               env, limit)
    ELSE tried

\* Mutant: the fallback asks for one record more
HybridGetSeasonalAnime_WrongLimit(st, env, season, year, limit) ==
    SeasonalOrPopular(
        SeasonalEnriched(ShikiGetSeasonalAnime(st, env, season, year, limit), env),
        env, limit + 1)

\* HybridAnimeService.get_seasonal_anime(season, year, limit)
HybridGetSeasonalAnime(st, env, season, year, limit) ==
    SeasonalOrPopular(
        SeasonalEnriched(ShikiGetSeasonalAnime(st, env, season, year, limit), env),
        env, limit)

\* _convert_kodik_only_format: f"kodik_{kodik_anime.get('id')}" with the id "" for
\* an absent one, material_data.get('title', 'Неизвестно') read as "Unknown"
ConvertKodikOnlyFormat(kodik_anime) ==
    [id |-> <<"kodik_", IF kodik_anime.id = "" THEN "None" ELSE kodik_anime.id>>,
     shikimori_id |-> NoId,
     title |-> IF "title" \in DOMAIN kodik_anime.material_data
               THEN kodik_anime.material_data.title ELSE "Unknown",
     title_orig |-> "",
     year |-> NoneInt,
     link |-> kodik_anime.link,
     kodik_id |-> kodik_anime.id,
     translation |-> IF kodik_anime.translation = TranslationAbsent
                     THEN "" ELSE kodik_anime.translation,
     quality |-> kodik_anime.quality,
     episodes_count |-> kodik_anime.episodes_count,
     material_data |->
         [poster_url |-> kodik_anime.material_data.poster_url,
          anime_poster_url |-> kodik_anime.material_data.poster_url,
          anime_kind |-> ""]]

\* anime_id.replace('shiki_', '')
WithoutShikiPrefix(anime_id) ==
    LET NotPrefix(c) == c # "shiki_" IN SelectSeq(anime_id, NotPrefix)

\* A catalog step of get_anime_details after the detail record was fetched:
\* if shikimori_anime: return await self._enrich_with_kodik(shikimori_anime);
\* none: the fetch gave nothing and the next step is tried
DetailEnriched(shikimori_anime, env) ==
    IF shikimori_anime.none \/ shikimori_anime.val = <<>>
    THEN RetNone(shikimori_anime.st)
    ELSE EnrichWithKodik(shikimori_anime.st, env, shikimori_anime.val[1])

\* The last step of get_anime_details: search_by_title("") and a match by raw id
DetailsFallback(st, env, anime_id) ==
    LET kodik_results == KodikSearchByTitle(st, env, "")
        hits == {i \in 1..Len(kodik_results.val) : <<kodik_results.val[i].id>> = anime_id}
    IN  IF kodik_results.none \/ hits = {} THEN RetNone(kodik_results.st)
        ELSE IF \E i \in hits : kodik_results.val[i].translation = TranslationNull
        THEN RetNone(Caught(kodik_results.st, "details"))
        ELSE Ret(kodik_results.st,
                 ConvertKodikOnlyFormat(
                     kodik_results.val[CHOOSE i \in hits : \A j \in hits : i <= j]))

\* The catalog ids get_anime_details tries, in order: shikimori_id, then the id
\* behind the shiki_ prefix
DetailIds(anime_id, shikimori_id) ==
    (IF shikimori_id # <<>> THEN <<shikimori_id>> ELSE <<>>)
    \o (IF StartsWith(anime_id, <<"shiki_">>)
        THEN <<WithoutShikiPrefix(anime_id)>> ELSE <<>>)

RECURSIVE DetailsTry(_, _, _, _)

DetailsNext(got, env, ids, anime_id) ==
    IF got.exc THEN RetNone(Caught(got.st, "details"))
    ELSE IF ~got.none THEN got
    ELSE DetailsTry(got.st, env, ids, anime_id)

DetailsTry(st, env, ids, anime_id) ==
    IF ids = <<>> THEN DetailsFallback(st, env, anime_id)
    ELSE DetailsNext(DetailEnriched(ShikiGetAnime(st, env, Head(ids)), env),
                     env, Tail(ids), anime_id)

\* HybridAnimeService.get_anime_details(anime_id, shikimori_id)
HybridGetAnimeDetails(st, env, anime_id, shikimori_id) ==
    DetailsTry(st, env, DetailIds(anime_id, shikimori_id), anime_id)

\* The playback id get_anime_episodes and get_video_link work with; val = <<>>: none
TargetKodikId(st, env, anime_id, kodik_id) ==
    IF kodik_id # <<>> THEN Ret(st, kodik_id)
    ELSE IF StartsWith(anime_id, <<"shiki_">>)
    THEN LET kodik_data == KodikSearchByShikimoriId(st, env, WithoutShikiPrefix(anime_id))
         IN  IF ~kodik_data.none /\ kodik_data.val # <<>>
             THEN Ret(kodik_data.st, IF kodik_data.val[1].id = "" THEN <<>>
                                     ELSE <<kodik_data.val[1].id>>)
             ELSE Ret(kodik_data.st, <<>>)
    ELSE Ret(st, anime_id)

\* HybridAnimeService.get_anime_episodes(anime_id, kodik_id)
HybridGetAnimeEpisodes(st, env, anime_id, kodik_id) ==
    LET target == TargetKodikId(st, env, anime_id, kodik_id)
    IN  IF target.val # <<>> THEN KodikGetAnimeEpisodes(target.st, env, target.val)
        ELSE Ret(target.st, <<>>)

\* HybridAnimeService.get_video_link(anime_id, season, episode, kodik_id)
HybridGetVideoLink(st, env, anime_id, season, episode, kodik_id) ==
    LET target == TargetKodikId(st, env, anime_id, kodik_id)
    IN  IF target.val # <<>>
        THEN KodikGetVideoLink(target.st, env, target.val, season, episode)
        ELSE RetNone(target.st)

\* The title lookup of get_alternative_poster, made when the id lookup found nothing
AlternativeByTitle(st, env, target_shikimori_id) ==
    LET shikimori_anime == ShikiGetAnime(st, env, target_shikimori_id)
        title == OrStr(shikimori_anime.val[1].russian, shikimori_anime.val[1].name)
    IN  IF shikimori_anime.none \/ shikimori_anime.val = <<>>
        THEN RetNone(shikimori_anime.st)
        ELSE IF title = "" THEN RetNone(shikimori_anime.st)
        ELSE KodikSearchByTitle(shikimori_anime.st, env, title)

PosterAnswer(poster_url, source) ==
    [success |-> TRUE, poster_url |-> poster_url, source |-> source]

\* HybridAnimeService.get_alternative_poster(anime_id, shikimori_id)
HybridGetAlternativePoster(st, env, anime_id, shikimori_id) ==
    LET target_shikimori_id ==
            IF shikimori_id = <<>> /\ StartsWith(anime_id, <<"shiki_">>)
            THEN WithoutShikiPrefix(anime_id) ELSE shikimori_id
        by_id == IF target_shikimori_id # <<>>
                 THEN KodikSearchByShikimoriId(st, env, target_shikimori_id)
                 ELSE RetNone(st)
        kodik_results ==
            IF (by_id.none \/ by_id.val = <<>>) /\ target_shikimori_id # <<>>
            THEN LET by_title == AlternativeByTitle(by_id.st, env, target_shikimori_id)
                 IN  IF by_title.none /\ ~by_id.none
                     THEN [by_id EXCEPT !.st = by_title.st] ELSE by_title
            ELSE by_id
        kodik_poster == kodik_results.val[1].material_data.poster_url
        probe == CheckImageAvailability(kodik_results.st, env, kodik_poster)
    IN  IF kodik_results.none \/ kodik_results.val = <<>>
        THEN Ret(kodik_results.st, PosterAnswer(PlaceholderURL, "placeholder"))
        ELSE IF kodik_poster = <<>>
        THEN Ret(kodik_results.st, PosterAnswer(PlaceholderURL, "placeholder"))
        ELSE IF probe.val THEN Ret(probe.st, PosterAnswer(kodik_poster, "kodik"))
        ELSE Ret(probe.st, PosterAnswer(PlaceholderURL, "placeholder"))

NoStats ==
    [total_checked |-> 0, shikimori_ok |-> 0, shikimori_failed |-> 0,
     kodik_available |-> 0, placeholder_used |-> 0]

\* The loop of get_poster_stats over the sample
RECURSIVE PosterStats(_, _, _, _)
PosterStats(st, env, sample, stats) ==
    IF sample = <<>> THEN Ret(st, stats)
    ELSE LET anime == Head(sample)
             poster_url == anime.material_data.poster_url
             counted == [stats EXCEPT !.total_checked = @ + 1]
             probe == CheckImageAvailability(st, env, poster_url)
         IN  IF StartsWith(poster_url, PlaceholderHost)
             THEN PosterStats(st, env, Tail(sample),
                              [counted EXCEPT !.placeholder_used = @ + 1])
             ELSE IF \E ind \in {"404", "not_found", "notfound", "error", "missing"} :
                         Contains(poster_url, ind)
             THEN PosterStats(st, env, Tail(sample),
                              [counted EXCEPT !.shikimori_failed = @ + 1])
             ELSE IF poster_url # <<>> /\ probe.val
             THEN PosterStats(probe.st, env, Tail(sample),
                              [counted EXCEPT !.shikimori_ok = @ + 1])
             ELSE PosterStats(probe.st, env, Tail(sample),
                              [counted EXCEPT
                                  !.shikimori_failed = @ + 1,
                                  !.kodik_available =
                                      IF anime.kodik_id # "" THEN @ + 1 ELSE @])

\* get_poster_stats after the sample was fetched
StatsOf(sample_anime, env) ==
    IF sample_anime.exc
    THEN Ret(Caught(sample_anime.st, "stats"), [success |-> FALSE])
    ELSE LET counted == PosterStats(sample_anime.st, env, sample_anime.val, NoStats)
         IN  Ret(counted.st, [success |-> TRUE, stats |-> counted.val])

\* HybridAnimeService.get_poster_stats(sample_size)
HybridGetPosterStats(st, env, sample_size) ==
    StatsOf(HybridGetPopularAnime(st, env, sample_size), env)

-----------------------------------------------------------------------------
(* Request pacing of the catalog adapter, on a clock of tenths of a second *)

TicksPerSecond == 10

\* min_interval = 1.0 / self.rate_limit
MinInterval == TicksPerSecond \div RateLimit

\* Mutant: no pacing
RateLimitDelay_NoWait(t, last_time) == 0

\* The delay _rate_limit_delay asks asyncio.sleep for at time t
RateLimitDelay(t, last_time) ==
    IF RateLimit <= 0 THEN 0
    ELSE IF t - last_time < MinInterval THEN MinInterval - (t - last_time)
    ELSE 0

Tasks == 1..NumTasks

\* The coroutines that may be suspended in _check_image_availability or get_token
\* at the same time, and a caller that is in neither
NumCallers == 2
Callers == 1..NumCallers
Idle == [pc |-> "idle", url |-> <<>>, candidate |-> 0]

-----------------------------------------------------------------------------
(* Inputs: raw provider records, provider answers *)

RawAnime(id, kind, score, scored_by, russian, name, image, episodes, aired_on) ==
    [id |-> id, kind |-> kind, score |-> score, scored_by |-> scored_by,
     russian |-> russian, name |-> name, image |-> image, episodes |-> episodes,
     aired_on |-> aired_on]

ImgPreview == << <<>>, <<"/", "system/animes/preview/1.jpg">>, <<>>, <<>> >>
ImgNone == << <<>>, <<>>, <<>>, <<>> >>
ImgMissing == << <<"/", "assets/globals/", "Missing", "_original.jpg">>,
                 <<"/", "system/animes/preview/2.jpg">>, <<>>, <<>> >>

CatalogPoster == ShikimoriHost \o <<"/", "system/animes/preview/1.jpg">>

KodikRaw(id, link, translation, quality, episodes_count, poster_url, seasons) ==
    [id |-> id, link |-> link, translation |-> translation, quality |-> quality,
     episodes_count |-> episodes_count, material_data |-> [poster_url |-> poster_url],
     seasons |-> seasons]

KodikPoster == <<"https://", "st.kp.yandex.net", "/images/film_big/1.jpg">>
KodikPoster404 == <<"https://", "st.kp.yandex.net", "/images/", "404", ".jpg">>

K1 == KodikRaw("k1", "//kodik.info/serial/1", "AniDub", "720p", 12, KodikPoster, <<>>)
K2 == KodikRaw("k2", "//kodik.info/serial/2", TranslationAbsent, "", 0, KodikPoster404, <<>>)
K3 == KodikRaw("k3", "//kodik.info/serial/3", "AniLibria", "480p", NoneInt, <<>>, <<>>)
K4 == KodikRaw("k4", "//kodik.info/serial/4", TranslationNull, "720p", 12, KodikPoster, <<>>)

Ok(data) == [status |-> "ok", data |-> data]
Failed(status) == [status |-> status, data |-> <<>>]

\* The records one enrichment may be given
EnrichRecords ==
    { RawAnime(1, "tv", 80, 2000, "Ru", "Name", ImgPreview, 12, <<2020, 1, 5>>),
      RawAnime(1, "tv", 80, 2000, "", "Name", ImgNone, NoneInt, <<>>),
      RawAnime(2, "tv", 80, 2000, "", "", ImgMissing, 24, <<BadNumber>>),
      RawAnime(NoId, "tv", 80, 2000, "Ru", "Name", ImgPreview, 12, <<2020, 1, 5>>) }

KodikAnswers ==
    { Ok(<<>>), Ok(<<K1>>), Ok(<<K2>>), Ok(<<K3>>), Ok(<<K4>>),
      Failed("transport"), Failed("http401") }

NoMatchAnswers == { Ok(<<>>), Failed("transport"), Failed("http401") }

TitleAnswers == { Ok(<<>>), Ok(<<K1>>), Failed("transport") }

\* What the providers answer during one enrichment. The title answer is only
\* consulted after an id lookup without a match.
EnrichEnvs ==
    { e \in [token_ok : {{}, {2, 3}},
             kodik : [{"shikimori_id", "title", "id"} -> KodikAnswers],
             head_ok : SUBSET {CatalogPoster, KodikPoster}] :
        /\ e.kodik["id"] = Ok(<<>>)
        /\ e.kodik["title"] \in TitleAnswers
        /\ (e.kodik["shikimori_id"] \notin NoMatchAnswers => e.kodik["title"] = Ok(<<>>)) }

-----------------------------------------------------------------------------
(* State, and the specification of enrichment *)

StartTime == 1000
TickSteps == {1, 299}

Cur ==
    [now |-> now, kodik_token |-> kodik_token, kodik_cache |-> kodik_cache,
     shiki_cache |-> shiki_cache, last_request_time |-> last_request_time,
     merge_cache |-> merge_cache, poster_cache |-> poster_cache,
     max_size |-> max_size, log |-> <<>>]

\* The state after a call that returned r, with the call recorded in last; obs is
\* what else was observed of the call
CommitObs(r, op, arg, env, obs) ==
    /\ now' = r.st.now
    /\ kodik_token' = r.st.kodik_token
    /\ kodik_cache' = r.st.kodik_cache
    /\ shiki_cache' = r.st.shiki_cache
    /\ last_request_time' = r.st.last_request_time
    /\ merge_cache' = r.st.merge_cache
    /\ poster_cache' = r.st.poster_cache
    /\ ops' = ops + 1
    /\ last' = [op |-> op, arg |-> arg, exc |-> r.exc, none |-> r.none, val |-> r.val,
                log |-> r.st.log, head_ok |-> env.head_ok,
                t0 |-> now, merge_before |-> merge_cache, obs |-> obs]
    /\ UNCHANGED <<ticks, max_size, pace, calls>>

Commit(r, op, arg, env) == CommitObs(r, op, arg, env, <<>>)

\* The state after construction, with CACHE_CONFIG["max_size"] = ceiling
InitWith(ceiling) ==
    /\ now = StartTime
    /\ ticks = 0
    /\ ops = 0
    /\ kodik_token = NoToken
    /\ kodik_cache = <<>>
    /\ shiki_cache = <<>>
    /\ last_request_time = 0
    /\ merge_cache = <<>>
    /\ poster_cache = <<>>
    /\ max_size = ceiling
    /\ last = [op |-> "init"]
    /\ pace = [pc |-> [t \in Tasks |-> "new"],
               wake |-> [t \in Tasks |-> NoneInt],
               sent_at |-> [t \in Tasks |-> NoneInt],
               n |-> 0, slept |-> 0, busy |-> 0, first_delay |-> NoneInt]
    /\ calls = [t \in Callers |-> Idle]

Init == InitWith(CacheMaxSize)

Tick ==
    /\ ticks < MaxTicks
    /\ \E d \in TickSteps : now' = now + d
    /\ ticks' = ticks + 1
    /\ UNCHANGED <<ops, kodik_token, kodik_cache, shiki_cache, last_request_time,
                   merge_cache, poster_cache, max_size, last, pace, calls>>

Enrich ==
    /\ ops < MaxOps
    /\ \E rec \in EnrichRecords, env \in EnrichEnvs :
           Commit(EnrichWithKodik(Cur, env, rec), "enrich", rec, env)

NextEnrich == Tick \/ Enrich

SpecEnrich == Init /\ [][NextEnrich]_vars

-----------------------------------------------------------------------------
(* The specification of the engine: its public methods, called one after another *)

A1 == RawAnime(1, "tv", 80, 2000, "Ru", "Name", ImgPreview, 12, <<2020, 1, 5>>)
A1pv == RawAnime(1, "pv", 80, 2000, "Ru", "Name", ImgPreview, 1, <<2020, 1, 5>>)
A2 == RawAnime(2, "ova", 70, 1500, "", "Ova", ImgNone, 2, <<2021, 4, 1>>)
A3 == RawAnime(3, "movie", 55, 100, "", "Film", ImgNone, 1, <<2019, 7, 1>>)
AMusic == RawAnime(4, "music", 90, 5000, "", "Clip", ImgNone, 1, <<>>)
APv == RawAnime(6, "pv", 90, 5000, "", "Trailer", ImgNone, 1, <<2020, 2, 2>>)
ABad == RawAnime(7, "tv", BadNumber, 10, "", "Odd", ImgNone, 1, <<2020, 3, 3>>)
ANoId == RawAnime(NoId, "tv", 80, 2000, "Ru", "Name", ImgPreview, 12, <<2020, 1, 5>>)

Episode(key, link) == [key |-> key, title |-> "", link |-> link]
Season(key, episodes) == [key |-> key, episodes |-> episodes]

\* Playback records with a seasons map
KE == KodikRaw("k1", "//kodik.info/serial/1", "AniDub", "720p", 3, KodikPoster,
               << Season(<<"2">>, << Episode(<<"1">>, "s2e1") >>),
                  Season(<<"1">>, << Episode(<<"2">>, "s1e2"),
                                     Episode(<<"1">>, "s1e1") >>) >>)
KEBad == KodikRaw("k1", "//kodik.info/serial/1", "AniDub", "720p", 1, KodikPoster,
                  << Season(<<"1">>, << Episode(<<"x">>, "s1ex") >>) >>)

ListAnswers ==
    { Ok(<<>>), Ok(<<A3, A2, A1, AMusic, APv>>), Ok(<<A1, ABad>>), Ok(<<ANoId, A1>>),
      Failed("transport") }

SeasonalAnswers == { Ok(<<>>), Ok(<<A3, A2, A1, AMusic, APv>>), Ok(<<A1, ABad>>),
                     Ok(<<ANoId, A1>>) }

YearAnswers == { Ok(<<>>), Ok(<<A3>>) }

DetailAnswers == { Ok(<<>>), Ok(<<A1>>), Ok(<<A1pv>>), Ok(<<ANoId>>), Failed("http404") }

Today == [year |-> 2024, month |-> 11]

Env(token_ok, by_id, by_title, by_kodik_id, head_ok, list, seasonal, year, detail) ==
    [token_ok |-> token_ok,
     kodik |-> [k \in {"shikimori_id", "title", "id"} |->
                   CASE k = "shikimori_id" -> by_id
                     [] k = "title" -> by_title
                     [] OTHER -> by_kodik_id],
     head_ok |-> head_ok,
     shiki |-> [e \in {"search", "popular", "seasonal", "year", "detail"} |->
                   CASE e \in {"search", "popular"} -> list
                     [] e = "seasonal" -> seasonal
                     [] e = "year" -> year
                     [] OTHER -> detail],
     today |-> Today]

AllPosters == {CatalogPoster, KodikPoster}

\* What the providers answer during a listing call
ListEnvs ==
    { Env({1}, Ok(<<K1>>), Ok(<<>>), Ok(<<>>), AllPosters, list, Ok(<<>>), year,
          Failed("http404")) : list \in ListAnswers, year \in YearAnswers }
    \cup { Env({1}, Ok(<<K1>>), Ok(<<>>), Ok(<<>>), AllPosters, list, seasonal, Ok(<<>>),
              Failed("http404")) : list \in ListAnswers, seasonal \in SeasonalAnswers }

\* What the providers answer during a details or poster call
DetailEnvs ==
    { Env({1}, by_id, Ok(<<K1>>), Ok(<<>>), head_ok, Ok(<<>>), Ok(<<>>), Ok(<<>>),
          detail) :
        by_id \in {Ok(<<>>), Ok(<<K1>>)}, head_ok \in {AllPosters},
        detail \in DetailAnswers }

\* What the providers answer during an episodes or video link call
PlaybackEnvs ==
    { Env(token_ok, by_id, Ok(<<>>), by_kodik_id, {}, Ok(<<>>), Ok(<<>>), Ok(<<>>),
          Failed("http404")) :
        token_ok \in {{2}}, by_id \in {Ok(<<K1>>), Ok(<<>>), Failed("http403")},
        by_kodik_id \in {Ok(<<>>), Ok(<<KE>>), Ok(<<KEBad>>), Failed("badjson")} }
    \cup { Env({}, Ok(<<K1>>), Ok(<<>>), Ok(<<KE>>), {}, Ok(<<>>), Ok(<<>>), Ok(<<>>),
              Failed("http404")) }

NoFilters == [season |-> "", year_from |-> NoYear, year_to |-> NoYear, year |-> NoYear]

SearchArgs ==
    { [query |-> "", filters |-> NoFilters],
      [query |-> "name", filters |-> [NoFilters EXCEPT !.year_from = 2020,
                                                        !.year_to = 2021]] }

Limits == {1, 2}

SeasonalArgs ==
    { [season |-> "", year |-> NoYear, limit |-> 2],
      [season |-> "fall", year |-> 2024, limit |-> 1] }

\* (anime_id, shikimori_id) or (anime_id, kodik_id)
IdArgs ==
    { [anime_id |-> <<"shiki_", "1">>, other |-> <<>>],
      [anime_id |-> <<"k1">>, other |-> <<"1">>],
      [anime_id |-> <<"k1">>, other |-> <<>>] }

\* The catalog records search_anime hands to enrichment: the adapter's results after
\* the kind and year filters, cut to the first 20
SearchObs(shikimori_results, filters) ==
    [filtered |-> Truncate(YearFiltered(SelectSeq(shikimori_results.val, KindAllowed),
                                        filters),
                           SearchEnrichCap),
     passed |-> YearFiltered(SelectSeq(shikimori_results.val, KindAllowed), filters)]

SearchAnime ==
    /\ ops < MaxOps
    /\ \E a \in SearchArgs, env \in ListEnvs :
           CommitObs(HybridSearchAnime(Cur, env, a.query, a.filters), "search", a, env,
                     SearchObs(ShikiSearchAnime(Cur, env, a.query, a.filters), a.filters))

GetPopularAnime ==
    /\ ops < MaxOps
    /\ \E limit \in Limits, env \in ListEnvs :
           Commit(HybridGetPopularAnime(Cur, env, limit), "popular", limit, env)

\* What the adapter's seasonal call returned, and what get_popular_anime(limit)
\* returns in the state the adapter's call left
SeasonalObs(adapter, env, limit) ==
    [adapter_exc |-> adapter.exc,
     adapter_val |-> adapter.val,
     popular |-> HybridGetPopularAnime(adapter.st, env, limit).val]

GetSeasonalAnime ==
    /\ ops < MaxOps
    /\ \E a \in SeasonalArgs, env \in ListEnvs :
           CommitObs(HybridGetSeasonalAnime(Cur, env, a.season, a.year, a.limit),
                     "seasonal", a, env,
                     SeasonalObs(ShikiGetSeasonalAnime(Cur, env, a.season, a.year, a.limit),
                                 env, a.limit))

\* if shikimori_anime: the detail fetch gave a record
Fetched(shikimori_anime) == ~shikimori_anime.none /\ shikimori_anime.val # <<>>

\* What get_anime_details has to work with: whether a detail fetch of one of the
\* catalog ids it tries gives a record, the records the playback source holds, and
\* the detail record of the first catalog id whose fetch gives one
DetailsObs(st, env, ids) ==
    [unresolved |-> \A i \in 1..Len(ids) : ~Fetched(ShikiGetAnime(st, env, ids[i])),
     playback |-> env.kodik["title"].data,
     fetched |-> IF \A i \in 1..Len(ids) : ~Fetched(ShikiGetAnime(st, env, ids[i]))
                 THEN <<>>
                 ELSE ShikiGetAnime(st, env,
                          ids[CHOOSE i \in 1..Len(ids) :
                                 /\ Fetched(ShikiGetAnime(st, env, ids[i]))
                                 /\ \A j \in 1..(i - 1) :
                                        ~Fetched(ShikiGetAnime(st, env, ids[j]))]).val]

GetAnimeDetails ==
    /\ ops < MaxOps
    /\ \E a \in IdArgs, env \in DetailEnvs :
           CommitObs(HybridGetAnimeDetails(Cur, env, a.anime_id, a.other), "details", a,
                     env, DetailsObs(Cur, env, DetailIds(a.anime_id, a.other)))

\* How the playback id was resolved: whether kodik_id was passed, whether the lookup
\* by catalog id (made for a shiki_ id only) left it unset, and what the playback
\* adapter returns when it is asked with anime_id itself after that lookup
PlaybackObs(a, target, by_anime_id) ==
    [passed |-> a.other # <<>>,
     no_match |-> a.other = <<>>
                  /\ (StartsWith(a.anime_id, <<"shiki_">>) => target.val = <<>>),
     by_anime_id |-> [none |-> by_anime_id.none, val |-> by_anime_id.val]]

EpisodesObs(a, env, target) ==
    PlaybackObs(a, target, KodikGetAnimeEpisodes(target.st, env, a.anime_id))

VideoLinkObs(a, env, episode, target) ==
    PlaybackObs(a, target, KodikGetVideoLink(target.st, env, a.anime_id, 1, episode))

GetAnimeEpisodes ==
    /\ ops < MaxOps
    /\ \E a \in IdArgs, env \in PlaybackEnvs :
           CommitObs(HybridGetAnimeEpisodes(Cur, env, a.anime_id, a.other), "episodes", a,
                     env, EpisodesObs(a, env, TargetKodikId(Cur, env, a.anime_id, a.other)))

GetVideoLink ==
    /\ ops < MaxOps
    /\ \E a \in IdArgs \ {[anime_id |-> <<"k1">>, other |-> <<"1">>]},
          episode \in {1, 3}, env \in PlaybackEnvs :
           CommitObs(HybridGetVideoLink(Cur, env, a.anime_id, 1, episode, a.other),
                     "video_link", [id |-> a, episode |-> episode], env,
                     VideoLinkObs(a, env, episode,
                                  TargetKodikId(Cur, env, a.anime_id, a.other)))

GetAlternativePoster ==
    /\ ops < MaxOps
    /\ \E a \in IdArgs, env \in DetailEnvs :
           Commit(HybridGetAlternativePoster(Cur, env, a.anime_id, a.other),
                  "alternative_poster", a, env)

GetPosterStats ==
    /\ ops < MaxOps
    /\ \E env \in ListEnvs :
           Commit(HybridGetPosterStats(Cur, env, 2), "poster_stats", 2, env)

Next ==
    \/ Tick
    \/ SearchAnime
    \/ GetPopularAnime
    \/ GetSeasonalAnime
    \/ GetAnimeDetails
    \/ GetAnimeEpisodes
    \/ GetVideoLink
    \/ GetAlternativePoster
    \/ GetPosterStats

Spec == Init /\ [][Next]_vars

-----------------------------------------------------------------------------
(* The specification of the playback adapter's episode list *)

KeyOne == <<"1">>
KeyZeroOne == <<"0", "1">>
KeyTwo == <<"2">>

\* The episodes maps of one season: dicts, so the keys of one map are distinct
EpisodeMaps ==
    { <<>>,
      << Episode(KeyOne, "e1") >>,
      << Episode(KeyTwo, "e2"), Episode(KeyOne, "e1") >>,
      << Episode(KeyOne, "e1"), Episode(KeyZeroOne, "e01") >>,
      << Episode(KeyZeroOne, "e01"), Episode(KeyTwo, "e2") >>,
      << Episode(<<"x">>, "ex") >> }

SeasonKeys == {KeyOne, KeyZeroOne, KeyTwo}

\* The seasons maps of a playback record: up to two seasons under distinct keys
SeasonMaps ==
    {<<>>}
    \cup { << Season(k, eps) >> : k \in SeasonKeys, eps \in EpisodeMaps }
    \cup { << Season(q[1], q[2]), Season(q[3], q[4]) >> :
             q \in { r \in SeasonKeys \X (EpisodeMaps \ {<<>>})
                           \X SeasonKeys \X (EpisodeMaps \ {<<>>}) : r[1] # r[3] } }

EpisodeEnv(seasons) ==
    Env({1}, Ok(<<>>), Ok(<<>>),
        Ok(<< KodikRaw("k1", "//kodik.info/serial/1", "AniDub", "720p", 3,
                       KodikPoster, seasons) >>),
        {}, Ok(<<>>), Ok(<<>>), Ok(<<>>), Failed("http404"))

\* KodikAPI.get_anime_episodes("k1")
KodikEpisodes ==
    /\ ops < MaxOps
    /\ \E seasons \in SeasonMaps :
           Commit(KodikGetAnimeEpisodes(Cur, EpisodeEnv(seasons), <<"k1">>),
                  "kodik_episodes", seasons, EpisodeEnv(seasons))

NextEpisodes == Tick \/ KodikEpisodes

SpecEpisodes == Init /\ [][NextEpisodes]_vars

-----------------------------------------------------------------------------
(* The specification of the playback adapter's video link *)

\* The seasons maps of one season, and three of two seasons
VideoLinkMaps ==
    { m \in SeasonMaps : Len(m) <= 1 }
    \cup { << Season(KeyTwo, << Episode(KeyOne, "s2e1") >>),
              Season(KeyOne, << Episode(KeyTwo, "s1e2"), Episode(KeyOne, "s1e1") >>) >>,
           << Season(KeyTwo, << Episode(KeyTwo, "s2e2") >>),
              Season(KeyZeroOne, << Episode(KeyTwo, "s1e2") >>) >>,
           << Season(KeyOne, << Episode(KeyOne, "s1e1") >>),
              Season(KeyZeroOne, << Episode(KeyOne, "s01e1") >>) >> }

VideoLinkArgs == [season : {1, 2}, episode : {1, 2}]

\* episodes = await self.get_anime_episodes(kodik_id): the list the link is taken from
LinkObs(episodes) == [episodes |-> episodes.val]

\* KodikAPI.get_video_link("k1", season, episode)
KodikVideoLink ==
    /\ ops < MaxOps
    /\ \E seasons \in VideoLinkMaps, a \in VideoLinkArgs :
           CommitObs(KodikGetVideoLink(Cur, EpisodeEnv(seasons), <<"k1">>,
                                       a.season, a.episode),
                     "kodik_video_link", a, EpisodeEnv(seasons),
                     LinkObs(KodikGetAnimeEpisodes(Cur, EpisodeEnv(seasons), <<"k1">>)))

NextVideoLink == Tick \/ KodikVideoLink

SpecVideoLink == Init /\ [][NextVideoLink]_vars

-----------------------------------------------------------------------------
(* The specification of the pure functions: the two conversions to the canonical *)
(* record and get_current_season, applied to inputs drawn anew at every step     *)

\* Raw catalog records: with and without an id, with each name present or empty
ConvertCatalogRecords ==
    { RawAnime(id, "tv", 80, 2000, russian, name, image, 12, aired_on) :
        id \in {NoId, 1, 2}, russian \in {"", "Ru"}, name \in {"", "Name"},
        image \in {ImgPreview, ImgNone, ImgMissing}, aired_on \in {<<>>, <<2020, 1, 5>>} }

\* A playback record whose material_data carries a title
WithTitle(kodik_anime, title) ==
    [kodik_anime EXCEPT !.material_data =
        [poster_url |-> kodik_anime.material_data.poster_url, title |-> title]]

\* Raw playback records: with and without an id, without a title, with an empty one
\* and with one
ConvertPlaybackRecords ==
    LET untitled == { KodikRaw(id, "//kodik.info/serial/1", translation, "720p", 12,
                               poster_url, <<>>) :
                        id \in {"", "k1"},
                        translation \in {"AniDub", TranslationAbsent, TranslationNull},
                        poster_url \in {KodikPoster, KodikPoster404} }
    IN  untitled \cup { WithTitle(k, title) : k \in untitled, title \in {"", "Title"} }

Days == [year : 2020..2028, month : 1..12]

PureVars == <<now, ticks, ops, kodik_token, kodik_cache, shiki_cache,
              last_request_time, merge_cache, poster_cache, max_size, pace, calls>>

\* One application of a pure function, recorded in last
Applied(op, arg, exc, val) ==
    /\ last' = [op |-> op, arg |-> arg, exc |-> exc, val |-> val]
    /\ UNCHANGED PureVars

ConvertShikimori ==
    \E raw \in ConvertCatalogRecords :
        Applied("convert_shikimori", raw, convert_shikimori_format(raw).exc,
                convert_shikimori_format(raw).val)

\* kodik_anime.get('translation', {}).get('title', '') raises on translation: null
ConvertKodikOnly ==
    \E raw \in ConvertPlaybackRecords :
        IF raw.translation = TranslationNull
        THEN Applied("convert_kodik_only", raw, TRUE, NoRecord)
        ELSE Applied("convert_kodik_only", raw, FALSE, ConvertKodikOnlyFormat(raw))

CurrentSeason ==
    \E today \in Days :
        Applied("get_current_season", today, FALSE, get_current_season(today))

NextPure == ConvertShikimori \/ ConvertKodikOnly \/ CurrentSeason

SpecPure == Init /\ [][NextPure]_vars

-----------------------------------------------------------------------------
(* The specification of concurrent catalog requests: every task is one            *)
(* _make_request on a cache miss; a task runs until it awaits (the sleep, the     *)
(* HTTP call), and the clock now counts tenths of a second.                       *)

EngineVars == <<ticks, ops, kodik_token, kodik_cache, shiki_cache, merge_cache,
                poster_cache, max_size, last, calls>>

\* _rate_limit_delay up to its sleep; without a sleep the task goes on, sets
\* last_request_time and dispatches. The event loop starts the tasks in the order
\* they were created.
PaceBegin(t) ==
    /\ pace.pc[t] = "new"
    /\ \A u \in Tasks : u < t => pace.pc[u] # "new"
    /\ LET delay == RateLimitDelay(now, last_request_time)
       IN  IF delay > 0
           THEN /\ pace' = [pace EXCEPT !.pc[t] = "sleeping", !.wake[t] = now + delay]
                /\ UNCHANGED last_request_time
           ELSE /\ pace' = [pace EXCEPT !.pc[t] = "sent", !.sent_at[t] = now]
                /\ last_request_time' = now
    /\ UNCHANGED now
    /\ UNCHANGED EngineVars

\* The sleep is over: last_request_time = time.time(), then the request is dispatched
PaceWake(t) ==
    /\ pace.pc[t] = "sleeping"
    /\ now >= pace.wake[t]
    /\ pace' = [pace EXCEPT !.pc[t] = "sent", !.sent_at[t] = now]
    /\ last_request_time' = now
    /\ UNCHANGED now
    /\ UNCHANGED EngineVars

PaceTime ==
    /\ now < StartTime + MaxClock
    /\ now' = now + 1
    /\ UNCHANGED <<last_request_time, pace>>
    /\ UNCHANGED EngineVars

NextPacing ==
    \/ \E t \in Tasks : PaceBegin(t)
    \/ \E t \in Tasks : PaceWake(t)
    \/ PaceTime

SpecPacing == Init /\ [][NextPacing]_vars

-----------------------------------------------------------------------------
(* The specification of sequential catalog requests: each request is awaited      *)
(* before the next one starts                                                     *)

Oversleep == {0, 1}
Latencies == {0, 1, 3}

\* One _make_request on a cache miss: _rate_limit_delay, then the HTTP call
SeqRequest ==
    /\ pace.n < MaxRequests
    /\ \E over \in Oversleep, latency \in Latencies :
           LET delay == RateLimitDelay(now, last_request_time)
               awake == now + delay + (IF delay > 0 THEN over ELSE 0)
           IN  /\ last_request_time' = awake
               /\ now' = awake + latency
               /\ pace' = [pace EXCEPT
                              !.n = @ + 1,
                              !.slept = @ + delay,
                              !.busy = @ + latency,
                              !.first_delay = IF pace.n = 0 THEN delay ELSE @]
    /\ UNCHANGED EngineVars

NextSeq == SeqRequest

SpecSeq == Init /\ [][NextSeq]_vars

-----------------------------------------------------------------------------
(* The specification of the two adapters' _make_request called on its own *)

MaxCalls == 3

KodikRequestParams == { <<"shikimori_id", "1">>, <<"id", "k1">> }
KodikResponses ==
    { Ok(<<K1>>), Ok(<<>>), Failed("http401"), Failed("http403"), Failed("http500"),
      Failed("transport"), Failed("badjson"), Failed("noresults") }

ShikiRequestParams == { <<"1">>, <<"2">> }
ShikiResponses == { Ok(<<A1>>), Failed("http500"), Failed("transport") }

\* The providers answer every playback request with kodik and every catalog request
\* with shiki
AdapterEnv(token_ok, kodik, shiki) ==
    Env(token_ok, kodik, kodik, kodik, {}, shiki, shiki, shiki, shiki)

\* The adapters as the call found them, what the provider answers to the request if
\* it is sent, and whether the call before this one sent a playback request that was
\* answered 401 or 403
AdapterObs(answer) ==
    [kodik_token |-> kodik_token, kodik_cache |-> kodik_cache,
     shiki_cache |-> shiki_cache, last_request_time |-> last_request_time,
     answer |-> answer.status,
     after_reset |-> /\ last.op = "kodik_request"
                     /\ last.obs.answer \in {"http401", "http403"}
                     /\ \E i \in 1..Len(last.log) : last.log[i].kind = "kodik"]

KodikRequest ==
    /\ ops < MaxCalls
    /\ \E params \in KodikRequestParams, token_ok \in {{}, {2}},
          kodik \in KodikResponses :
           CommitObs(KodikMakeRequest(Cur, AdapterEnv(token_ok, kodik, Ok(<<>>)),
                                      "search", params),
                     "kodik_request", params, AdapterEnv(token_ok, kodik, Ok(<<>>)),
                     AdapterObs(kodik))

ShikiRequest ==
    /\ ops < MaxCalls
    /\ \E params \in ShikiRequestParams, shiki \in ShikiResponses :
           CommitObs(ShikiMakeRequest(Cur, AdapterEnv({}, Ok(<<>>), shiki),
                                      "detail", params),
                     "shiki_request", params, AdapterEnv({}, Ok(<<>>), shiki),
                     AdapterObs(shiki))

NextAdapters == Tick \/ KodikRequest \/ ShikiRequest

SpecAdapters == Init /\ [][NextAdapters]_vars

-----------------------------------------------------------------------------
(* The specification of the adapters' caches under a small max_size: every       *)
(* request is answered 200, so every cache miss stores an entry                  *)

MaxCacheSize == 3
MaxStores == 4

\* The engine configured with a max_size of 1..MaxCacheSize
InitSmall == \E ceiling \in 1..MaxCacheSize : InitWith(ceiling)

StoreParams == { <<"1">>, <<"2">>, <<"3">>, <<"4">> }

StoreEnv == AdapterEnv({1}, Ok(<<>>), Ok(<<>>))

KodikStore ==
    /\ ops < MaxStores
    /\ \E params \in StoreParams :
           CommitObs(KodikMakeRequest(Cur, StoreEnv, "search", <<"id">> \o params),
                     "kodik_request", <<"id">> \o params, StoreEnv,
                     AdapterObs(StoreEnv.kodik["id"]))

ShikiStore ==
    /\ ops < MaxStores
    /\ \E params \in StoreParams :
           CommitObs(ShikiMakeRequest(Cur, StoreEnv, "detail", params),
                     "shiki_request", params, StoreEnv,
                     AdapterObs(StoreEnv.shiki["detail"]))

NextEviction == Tick \/ KodikStore \/ ShikiStore

SpecEviction == InitSmall /\ [][NextEviction]_vars

-----------------------------------------------------------------------------
(* The specification of the engine's caches under a small max_size: enrichments  *)
(* of catalog records with distinct ids and distinct posters                     *)

PosterOf(id) == <<"/", "system/animes/preview/", ToString(id), ".jpg">>

CacheRecord(id) ==
    RawAnime(id, "tv", 80, 2000, "Ru", "Name", << <<>>, PosterOf(id), <<>>, <<>> >>,
             12, <<2020, 1, 5>>)

CatalogPosters == { ShikimoriHost \o PosterOf(id) : id \in 1..MaxStores }

\* A playback match by id with every poster reachable or none, or no match at all
CacheEnvs ==
    { Env({1}, Ok(<<K1>>), Ok(<<>>), Ok(<<>>), head_ok, Ok(<<>>), Ok(<<>>), Ok(<<>>),
          Failed("http404")) : head_ok \in {{}, CatalogPosters \cup {KodikPoster}} }
    \cup { Env({1}, Ok(<<>>), Ok(<<>>), Ok(<<>>), {}, Ok(<<>>), Ok(<<>>), Ok(<<>>),
              Failed("http404")) }

\* The enrichment of a catalog record that was not enriched before
EnrichDistinct ==
    /\ ops < MaxStores
    /\ \E env \in CacheEnvs :
           Commit(EnrichWithKodik(Cur, env, CacheRecord(ops + 1)), "enrich",
                  CacheRecord(ops + 1), env)

NextEngineCaches == Tick \/ EnrichDistinct

SpecEngineCaches == InitSmall /\ [][NextEngineCaches]_vars

-----------------------------------------------------------------------------
(* The specification of token negotiation: get_token and reset_token called on   *)
(* their own, one call after the other                                           *)

\* What a probe of one candidate is answered: a status (0: no response) and what
\* the decoded body holds under 'results'
ProbeAnswers ==
    { [status |-> 200, results |-> results] :
        results \in {"list", "empty", "null", "absent", "undecodable"} }
    \cup { [status |-> 500, results |-> "absent"], [status |-> 0, results |-> "absent"] }

\* response.status_code == 200 and response.json().get('results') is not None
Adopts(answer) == answer.status = 200 /\ answer.results \in {"list", "empty"}

TokenEnv(answers) ==
    AdapterEnv({i \in 1..NumTestTokens : Adopts(answers[i])}, Ok(<<>>), Ok(<<>>))

\* get_token returns self.token, or None
TokenReturned(st) == IF st.kodik_token = NoToken THEN RetNone(st) ELSE Ret(st, st.kodik_token)

TokenObs(answers) == [kodik_token |-> kodik_token, answers |-> answers]

GetToken ==
    /\ ops < MaxCalls
    /\ \E answers \in [1..NumTestTokens -> ProbeAnswers] :
           CommitObs(TokenReturned(KodikGetToken(Cur, TokenEnv(answers))), "get_token",
                     <<>>, TokenEnv(answers), TokenObs(answers))

\* reset_token: self.token = None
ResetToken ==
    /\ ops < MaxCalls
    /\ CommitObs(RetNone([Cur EXCEPT !.kodik_token = NoToken]), "reset_token", <<>>,
                 TokenEnv([i \in 1..NumTestTokens |-> [status |-> 0, results |-> "absent"]]),
                 [kodik_token |-> kodik_token])

NextToken == GetToken \/ ResetToken

SpecToken == Init /\ [][NextToken]_vars

-----------------------------------------------------------------------------
(* The specification of search_anime on catalog responses around the cap of 20:  *)
(* one search per behaviour                                                      *)

MaxResponse == 23
MaxSearches == 1

CapRecord(id, kind) ==
    RawAnime(id, kind, 80, 2000, "Ru", "Name", ImgNone, 12, <<2020, 1, 5>>)

\* A response of n records with ids 1..n in which the record at position odd, if
\* any, is of a kind the search drops ("pv") or has no id ("noid")
CapResponse(n, odd, how) ==
    [i \in 1..n |-> IF i # odd THEN CapRecord(i, "tv")
                    ELSE IF how = "pv" THEN CapRecord(i, "pv")
                    ELSE CapRecord(NoId, "tv")]

CapResponses ==
    { CapResponse(n, odd, how) :
        n \in {0} \cup (SearchEnrichCap - 3)..MaxResponse,
        odd \in {0, 1, 2, SearchEnrichCap, SearchEnrichCap + 1, SearchEnrichCap + 2},
        how \in {"pv", "noid"} }

CapEnvs ==
    { Env({1}, by_id, Ok(<<>>), Ok(<<>>), AllPosters, Ok(list), Ok(<<>>), Ok(<<>>),
          Failed("http404")) :
        by_id \in {Ok(<<K1>>), Ok(<<>>), Failed("transport")}, list \in CapResponses }

SearchMany ==
    /\ ops < MaxSearches
    /\ \E a \in SearchArgs, env \in CapEnvs :
           CommitObs(HybridSearchAnime(Cur, env, a.query, a.filters), "search", a, env,
                     SearchObs(ShikiSearchAnime(Cur, env, a.query, a.filters), a.filters))

NextSearchCap == SearchMany

SpecSearchCap == Init /\ [][NextSearchCap]_vars

-----------------------------------------------------------------------------
(* The specification of the catalog adapter's get_seasonal_anime on its own      *)

SeasonalEnvs ==
    { Env({}, Ok(<<>>), Ok(<<>>), Ok(<<>>), {}, Ok(<<>>), seasonal, year,
          Failed("http404")) :
        seasonal \in SeasonalAnswers \cup {Failed("transport")},
        year \in YearAnswers \cup {Failed("http500")} }

\* if not all_results: the request, or the cache in its place, gave nothing
GaveNothing(r) == r.none \/ r.val = <<>>

\* What the two requests of get_seasonal_anime would be answered in the state the
\* call finds: the season-scoped one, and the year-scoped one after it
SeasonalRequestsObs(st, env, season, year, limit) ==
    LET strict == ShikiMakeRequest(st, env, "seasonal",
                     <<"limit", ToString(limit * 3), "season", season, ToString(year)>>)
    IN  [strict_nothing |-> GaveNothing(strict),
         relaxed_nothing |->
             GaveNothing(ShikiMakeRequest(strict.st, env, "year",
                            <<"limit", ToString(limit * 2), "season", ToString(year)>>)),
         year |-> ToString(year)]

AdapterSeasonal ==
    /\ ops < MaxOps
    /\ \E a \in SeasonalArgs, env \in SeasonalEnvs :
           CommitObs(ShikiGetSeasonalAnime(Cur, env, a.season, a.year, a.limit),
                     "adapter_seasonal", a, env,
                     SeasonalRequestsObs(Cur, env,
                         IF a.season = "" \/ a.year = NoYear
                         THEN get_current_season(env.today).season ELSE a.season,
                         IF a.season = "" \/ a.year = NoYear
                         THEN get_current_season(env.today).year ELSE a.year,
                         a.limit))

NextSeasonal == Tick \/ AdapterSeasonal

SpecSeasonal == Init /\ [][NextSeasonal]_vars

-----------------------------------------------------------------------------
(* The specification of _check_image_availability called by coroutines that      *)
(* overlap, one step per stretch of code between awaits, and of clear_cache      *)

MaxChecks == 4

ProbeUrls == {<<>>, CatalogPoster, KodikPoster}

NoAnswers ==
    Env({}, Ok(<<>>), Ok(<<>>), Ok(<<>>), {}, Ok(<<>>), Ok(<<>>), Ok(<<>>),
        Failed("http404"))

\* _check_image_availability up to `await client.head(url)`: an empty URL and a
\* recorded URL return at once, any other URL has its HEAD request sent
CheckBegin(t) ==
    /\ ops < MaxChecks
    /\ calls[t] = Idle
    /\ \E url \in ProbeUrls :
           IF url = <<>> \/ url \in DOMAIN poster_cache
           THEN CommitObs(CheckImageAvailability(Cur, NoAnswers, url), "check", url,
                          NoAnswers, [found |-> url \in DOMAIN poster_cache])
           ELSE /\ calls' = [calls EXCEPT ![t] = [Idle EXCEPT !.pc = "head",
                                                              !.url = url]]
                /\ ops' = ops + 1
                /\ UNCHANGED <<now, ticks, kodik_token, kodik_cache, shiki_cache,
                               last_request_time, merge_cache, poster_cache, max_size,
                               last, pace>>

\* _check_image_availability from the answer of its HEAD request on: the result
\* (200 with an image content type, or anything else including a timeout) is
\* written to poster_cache and returned
CheckEnd(t) ==
    /\ calls[t].pc = "head"
    /\ \E ok \in BOOLEAN :
           /\ poster_cache' = (calls[t].url :> ok) @@ poster_cache
           /\ last' = [op |-> "check", arg |-> calls[t].url, exc |-> FALSE,
                       none |-> FALSE, val |-> ok,
                       log |-> <<Event("head", calls[t].url, ok, <<>>)>>,
                       head_ok |-> {}, t0 |-> now, merge_before |-> merge_cache,
                       obs |-> [found |-> FALSE]]
    /\ calls' = [calls EXCEPT ![t] = Idle]
    /\ UNCHANGED <<now, ticks, ops, kodik_token, kodik_cache, shiki_cache,
                   last_request_time, merge_cache, max_size, pace>>

\* HybridAnimeService.clear_cache()
ClearCache ==
    /\ ops < MaxChecks
    /\ kodik_cache' = <<>>
    /\ shiki_cache' = <<>>
    /\ poster_cache' = <<>>
    /\ merge_cache' = <<>>
    /\ ops' = ops + 1
    /\ last' = [op |-> "clear_cache", arg |-> <<>>, exc |-> FALSE, none |-> TRUE,
                val |-> <<>>, log |-> <<>>, head_ok |-> {}, t0 |-> now,
                merge_before |-> merge_cache, obs |-> <<>>]
    /\ UNCHANGED <<now, ticks, kodik_token, last_request_time, max_size, pace, calls>>

NextProbes ==
    \/ Tick
    \/ \E t \in Callers : CheckBegin(t)
    \/ \E t \in Callers : CheckEnd(t)
    \/ ClearCache

SpecProbes == Init /\ [][NextProbes]_vars

-----------------------------------------------------------------------------
(* The specification of get_token called by coroutines that overlap (the         *)
(* constructor's _initialize_token task and _make_request calls), one step per   *)
(* stretch of code between awaits; every probe is answered on its own            *)

MaxNegotiations == 4

\* What a step that ends a call leaves in last
Returned(op, arg, none, val, events, obs) ==
    [op |-> op, arg |-> arg, exc |-> FALSE, none |-> none, val |-> val,
     log |-> events, head_ok |-> {}, t0 |-> now, merge_before |-> merge_cache,
     obs |-> obs]

\* get_token up to the await of its first probe: a held token is returned at once,
\* otherwise the probe of the first candidate is sent
TokenBegin(t) ==
    /\ ops < MaxNegotiations
    /\ calls[t] = Idle
    /\ ops' = ops + 1
    /\ IF kodik_token # NoToken
       THEN /\ last' = Returned("get_token", t, FALSE, kodik_token, <<>>,
                                [held |-> TRUE])
            /\ UNCHANGED calls
       ELSE /\ calls' = [calls EXCEPT ![t] = [Idle EXCEPT !.pc = "probe",
                                                          !.candidate = 1]]
            /\ UNCHANGED last
    /\ UNCHANGED <<now, ticks, kodik_token, kodik_cache, shiki_cache,
                   last_request_time, merge_cache, poster_cache, max_size, pace>>

\* get_token from the answer of a probe on: an answer that adopts sets self.token
\* to this caller's candidate and returns it; any other answer or an exception
\* leads to the probe of the next candidate, or to None after the last
TokenAnswer(t) ==
    /\ calls[t].pc = "probe"
    /\ \E answer \in ProbeAnswers :
           IF Adopts(answer)
           THEN /\ kodik_token' = calls[t].candidate
                /\ calls' = [calls EXCEPT ![t] = Idle]
                /\ last' = Returned("get_token", t, FALSE, calls[t].candidate,
                                    <<Event("token_probe",
                                            <<ToString(calls[t].candidate)>>, TRUE,
                                            <<>>)>>,
                                    [held |-> FALSE])
           ELSE IF calls[t].candidate < NumTestTokens
           THEN /\ calls' = [calls EXCEPT ![t].candidate = @ + 1]
                /\ UNCHANGED <<kodik_token, last>>
           ELSE /\ calls' = [calls EXCEPT ![t] = Idle]
                /\ last' = Returned("get_token", t, TRUE, NoToken, <<>>,
                                    [held |-> FALSE])
                /\ UNCHANGED kodik_token
    /\ UNCHANGED <<now, ticks, ops, kodik_cache, shiki_cache, last_request_time,
                   merge_cache, poster_cache, max_size, pace>>

\* self.token = None: reset_token, or _make_request answered 401 or 403
TokenCleared ==
    /\ ops < MaxNegotiations
    /\ kodik_token # NoToken
    /\ kodik_token' = NoToken
    /\ ops' = ops + 1
    /\ \E cause \in {"reset_token", "http401", "http403"} :
           last' = Returned("token_cleared", cause, TRUE, NoToken, <<>>, <<>>)
    /\ UNCHANGED <<now, ticks, kodik_cache, shiki_cache, last_request_time,
                   merge_cache, poster_cache, max_size, pace, calls>>

NextTokenRace ==
    \/ \E t \in Callers : TokenBegin(t)
    \/ \E t \in Callers : TokenAnswer(t)
    \/ TokenCleared

SpecTokenRace == Init /\ [][NextTokenRace]_vars

-----------------------------------------------------------------------------
(* Properties of enrichment, checked under SpecEnrich *)

Events(kind) == {i \in 1..Len(last.log) : last.log[i].kind = kind}

\* The last call was an enrichment of a record with an id that returned a record
Enriched == last.op = "enrich" /\ ~last.exc

\* The merge-cache entry the last enrichment found for its record, if any
EntryBefore == CacheGet(last.merge_before, MergeKey(last.arg.id))

HadEntry ==
    /\ last.op = "enrich"
    /\ last.arg.id # NoId
    /\ CacheHas(last.merge_before, MergeKey(last.arg.id))

Rewritten ==
    /\ CacheHas(merge_cache, MergeKey(last.arg.id))
    /\ CacheGet(merge_cache, MergeKey(last.arg.id)).ts = last.t0
    /\ CacheGet(merge_cache, MergeKey(last.arg.id)).data = last.val

CacheHitBehaviour ==
    HadEntry /\ last.t0 - EntryBefore.ts < 300 =>
        /\ ~last.exc
        /\ last.val = EntryBefore.data
        /\ last.log = <<>>
        /\ merge_cache = last.merge_before

LookedUpById ==
    \E i \in Events("lookup") : last.log[i].key = <<"shikimori_id">>

\* C1 (as stated): an enrichment of X started less than 300 s after the merge of X
\* was stored returns the stored record without a playback lookup or poster probe;
\* one started 300 s or more after it performs a fresh playback lookup and
\* rewrites the entry.
C1_Original ==
    /\ CacheHitBehaviour
    /\ HadEntry /\ last.t0 - EntryBefore.ts >= 300 => LookedUpById /\ Rewritten

\* C1 (amended): as C1, except that an enrichment after expiry whose merge raises
\* logs the error, returns the catalog-only record and leaves the expired entry
\* in place; every other enrichment after expiry rewrites the entry.
C1_MergeCacheTTL ==
    /\ CacheHitBehaviour
    /\ HadEntry /\ last.t0 - EntryBefore.ts >= 300 =>
          /\ LookedUpById
          /\ IF Events("error") = {} THEN Rewritten
             ELSE /\ merge_cache = last.merge_before
                  /\ ~last.exc
                  /\ last.val = convert_shikimori_format(last.arg).val

C1_Witness ==
    /\ HadEntry
    /\ last.t0 - EntryBefore.ts = 300
    /\ Rewritten
    /\ \E i \in Events("kodik") : last.log[i].ok

C1_WitnessHit ==
    /\ HadEntry
    /\ last.t0 - EntryBefore.ts = 299
    /\ last.val = EntryBefore.data

ContainsExact(s, c) == \E i \in 1..Len(s) : s[i] = c

\* C2: every record returned by enrichment has a poster_url that is non-empty,
\* contains no error indicator, and is either a URL whose reachability probe
\* returned true or the fixed placeholder.
C2_PosterInvariant ==
    Enriched =>
        LET p == last.val.material_data.poster_url
        IN  /\ p # <<>>
            /\ \A ind \in ErrorIndicators : ~ContainsExact(p, ind)
            /\ \/ p = PlaceholderURL
               \/ p \in DOMAIN poster_cache /\ poster_cache[p]

\* A fresh enrichment whose playback lookups (by id, by title) found nothing
NoPlaybackMatch ==
    /\ Events("lookup") # {}
    /\ \A i \in Events("lookup") : ~last.log[i].ok

\* C3: when the catalog poster is well-formed, its probe fails and the playback
\* source yields no match, the merged record's poster_url and anime_poster_url
\* are the fixed placeholder.
C3_BothPostersDead ==
    /\ Enriched
    /\ Events("error") = {}
    /\ get_poster_url(last.arg) # PlaceholderURL
    /\ get_poster_url(last.arg) \notin last.head_ok
    /\ NoPlaybackMatch
    => /\ last.val.material_data.poster_url = PlaceholderURL
       /\ last.val.material_data.anime_poster_url = PlaceholderURL

\* The results the merge of the last enrichment was given
MergedWith ==
    last.log[CHOOSE i \in Events("lookup") : \A j \in Events("lookup") : j <= i].data

\* The last enrichment merged the record with a playback match and returned the merge
MergedMatch ==
    /\ Enriched
    /\ Events("error") = {}
    /\ Events("lookup") # {}
    /\ MergedWith # <<>>

\* C4: when the canonicalized catalog poster is the placeholder, empty or carries
\* an error indicator, and the first playback result has a non-empty poster_url,
\* the merged poster_url and anime_poster_url both equal the playback poster and
\* no reachability probe is issued.
C4_PlaceholderReplaced ==
    /\ MergedMatch
    /\ ShouldReplacePoster(get_poster_url(last.arg))
    /\ MergedWith[1].material_data.poster_url # <<>>
    => /\ last.val.material_data.poster_url = MergedWith[1].material_data.poster_url
       /\ last.val.material_data.anime_poster_url = MergedWith[1].material_data.poster_url
       /\ Events("head") = {}

C4_Witness ==
    /\ MergedMatch
    /\ get_poster_url(last.arg) = PlaceholderURL
    /\ last.arg.image = ImgMissing
    /\ last.val.material_data.poster_url = KodikPoster
    /\ KodikPoster \notin last.head_ok

-----------------------------------------------------------------------------
(* Properties of the engine's public methods, checked under Spec *)

ListOps == {"search", "seasonal", "popular"}

\* C5: every record returned by search_anime, get_seasonal_anime and
\* get_popular_anime, merge-cache hits and the seasonal fallback included, has
\* anime_kind in {tv, movie, ova, ona, special, music}.
C5_KindAllowList ==
    last.op \in ListOps =>
        \A i \in 1..Len(last.val) :
            last.val[i].material_data.anime_kind \in SearchKinds

\* The adapter's seasonal call of the last get_seasonal_anime returned [] or raised
AdapterGaveNothing ==
    /\ last.op = "seasonal"
    /\ last.obs.adapter_exc \/ last.obs.adapter_val = <<>>

\* The catalog requests of the last call to the given endpoint class
ShikiRequests(endpoint) ==
    {i \in Events("shiki") : last.log[i].key[2] = endpoint}

\* C6: when the adapter's get_seasonal_anime returns [] or raises,
\* get_seasonal_anime returns the list get_popular_anime(limit) returns in the
\* same state, and the seasonal requests (strict, relaxed) are not made again:
\* each is sent at most once, before any request of the popular path.
C6_SeasonalFallback ==
    AdapterGaveNothing =>
        /\ ~last.exc
        /\ last.val = last.obs.popular
        /\ Cardinality(ShikiRequests("seasonal")) <= 1
        /\ Cardinality(ShikiRequests("year")) <= 1
        /\ \A i \in ShikiRequests("seasonal") \cup ShikiRequests("year") :
               \A j \in ShikiRequests("popular") : i < j

C6_Witness ==
    /\ AdapterGaveNothing
    /\ ~last.obs.adapter_exc
    /\ Len(last.val) = 2
    /\ ShikiRequests("popular") # {}

C6_WitnessRaised ==
    /\ AdapterGaveNothing
    /\ last.obs.adapter_exc
    /\ Len(last.val) >= 1

PublicOps ==
    {"search", "seasonal", "popular", "details", "episodes", "video_link",
     "alternative_poster", "poster_stats"}

\* C10: whatever the adapters answer (transport error, error status, undecodable
\* body, a raw record without an id), every public method of the engine returns
\* a value or None and does not raise.
C10_NoExceptionEscapes == last.op \in PublicOps => ~last.exc

\* A public call during which an exception was raised and logged
C10_Witness ==
    /\ last.op = "popular"
    /\ \E i \in Events("error") : last.log[i].key = <<"popular">>
    /\ last.val = <<>>
    /\ ~last.exc

-----------------------------------------------------------------------------
(* Properties of the episode list, checked under SpecEpisodes *)

\* C7: the list KodikAPI.get_anime_episodes returns is sorted ascending by
\* (season, episode) and holds no two entries with the same (season, episode),
\* whatever the keys of the seasons map, keys of the same integer included.
C7_EpisodeOrdering ==
    last.op = "kodik_episodes" =>
        /\ \A i \in 1..(Len(last.val) - 1) : ~EpisodeBefore(last.val[i + 1], last.val[i])
        /\ \A i, j \in 1..Len(last.val) :
               i # j => \/ last.val[i].season # last.val[j].season
                        \/ last.val[i].episode # last.val[j].episode

\* The part of C7 that holds: the list is sorted
EpisodesSorted ==
    last.op = "kodik_episodes" =>
        \A i \in 1..(Len(last.val) - 1) : ~EpisodeBefore(last.val[i + 1], last.val[i])

-----------------------------------------------------------------------------
(* Properties of request pacing *)

Dispatched == {t \in Tasks : pace.pc[t] = "sent"}

DispatchedWithin(from, width) ==
    {t \in Dispatched : from <= pace.sent_at[t] /\ pace.sent_at[t] < from + width}

\* C8 (checked under SpecPacing): any two dispatches of concurrently started
\* catalog requests are at least 1/rate_limit s apart, so that no window of one
\* second holds more than rate_limit dispatches.
C8_GlobalPacing ==
    /\ \A t, u \in Dispatched :
           t # u => \/ pace.sent_at[t] - pace.sent_at[u] >= MinInterval
                    \/ pace.sent_at[u] - pace.sent_at[t] >= MinInterval
    /\ \A from \in StartTime..(StartTime + MaxClock) :
           Cardinality(DispatchedWithin(from, TicksPerSecond)) <= RateLimit

\* The second half of C8 alone
WindowBounded ==
    \A from \in StartTime..(StartTime + MaxClock) :
        Cardinality(DispatchedWithin(from, TicksPerSecond)) <= RateLimit

\* C9 (checked under SpecSeq): over N sequential requests the enforced delay is at
\* least (N-1)/r less the time spent in the requests; with no latency, r = 5 and
\* N = 10 the sleep adds up to 1.8 s or more; the first request is not delayed.
C9_SequentialPacing ==
    /\ pace.n >= 1 => pace.slept + pace.busy >= (pace.n - 1) * MinInterval
    /\ pace.n = 10 /\ pace.busy = 0 /\ RateLimit = 5 =>
           pace.slept * 10 >= 18 * TicksPerSecond
    /\ pace.n >= 1 => pace.first_delay = 0

C9_Witness ==
    /\ pace.n = 10
    /\ pace.busy = 0
    /\ pace.slept * 10 = 18 * TicksPerSecond
    /\ pace.first_delay = 0

-----------------------------------------------------------------------------
(* Properties of the second group of claims *)

\* C11: search_anime returns one record for each of the first 20 filtered catalog
\* results, in their order, whatever happens while a record is enriched: a failure
\* on one record (cache-key computation, lookup, merge, poster arbitration) gives
\* the catalog-only record of that result and never shortens or empties the list.
C11_GracefulDegradation ==
    last.op = "search" =>
        /\ ~last.exc
        /\ Len(last.val) = Len(last.obs.filtered)
        /\ \A i \in 1..Len(last.val) :
               last.val[i].shikimori_id = last.obs.filtered[i].id

KodikKey(params) == <<"kodik", "search">> \o params
ShikiKey(params) == <<"shiki", "detail">> \o params

\* The call found an entry for its key that was younger than timeout
FoundFresh(cache, key, timeout) ==
    /\ CacheHas(cache, key)
    /\ last.t0 - CacheGet(cache, key).ts < timeout

\* C12: a _make_request of either adapter whose key has a cache entry younger than
\* the adapter's cache_timeout returns the cached value, sends no HTTP request of
\* any kind and leaves the cache and last_request_time unchanged, whatever the
\* value of the playback token.
C12_CacheHitNoNetwork ==
    /\ last.op = "kodik_request"
       /\ FoundFresh(last.obs.kodik_cache, KodikKey(last.arg), KodikCacheTimeout)
       => /\ ~last.none /\ ~last.exc
          /\ last.val = CacheGet(last.obs.kodik_cache, KodikKey(last.arg)).data
          /\ last.log = <<>>
          /\ kodik_cache = last.obs.kodik_cache
    /\ last.op = "shiki_request"
       /\ FoundFresh(last.obs.shiki_cache, ShikiKey(last.arg), ShikiCacheTimeout)
       => /\ ~last.none /\ ~last.exc
          /\ last.val = CacheGet(last.obs.shiki_cache, ShikiKey(last.arg)).data
          /\ last.log = <<>>
          /\ shiki_cache = last.obs.shiki_cache
          /\ last_request_time = last.obs.last_request_time

\* The call sent its playback request (it held or found a token and missed the cache)
KodikSent == last.op = "kodik_request" /\ Events("kodik") # {}

\* C16: a playback request answered 401 or 403 sets the token to None, returns None
\* and caches nothing; the _make_request call after it negotiates a token before it
\* sends its request; a request that fails in any other way (transport error, other
\* status, undecodable body, no results key) leaves the token as it was.
C16_TokenReset ==
    /\ KodikSent /\ last.obs.answer \in {"http401", "http403"}
       => /\ kodik_token = NoToken
          /\ last.none
          /\ kodik_cache = last.obs.kodik_cache
    /\ last.op = "kodik_request" /\ last.obs.after_reset
       => /\ last.obs.kodik_token = NoToken
          /\ last.log # <<>> /\ last.log[1].kind = "token_probe"
          /\ \A i \in Events("kodik") :
                 \E j \in Events("token_probe") : j < i /\ last.log[j].ok
    /\ KodikSent /\ last.obs.answer \notin {"ok", "http401", "http403"}
       => /\ kodik_token # NoToken
          /\ last.obs.kodik_token # NoToken => kodik_token = last.obs.kodik_token
          /\ last.none
          /\ kodik_cache = last.obs.kodik_cache

\* A call right after a token reset that negotiated a token and sent its request
C16_Witness ==
    /\ last.op = "kodik_request" /\ last.obs.after_reset
    /\ KodikSent
    /\ kodik_token # NoToken

\* A request that failed without a 401 or 403, sent with a token held since earlier
C16_WitnessOtherFailure ==
    /\ KodikSent
    /\ last.obs.answer \in {"http500", "transport", "badjson", "noresults"}
    /\ last.obs.kodik_token # NoToken

\* C13: when get_anime_details(id, catalogId) cannot resolve through the catalog and
\* the playback source holds a record whose raw id equals id, the call returns that
\* record in the playback-only canonical shape, with id = "kodik_" + id; it returns
\* None only if the playback source holds no such record.
C13_DetailsFallback ==
    last.op = "details" /\ last.obs.unresolved =>
        IF \E i \in 1..Len(last.obs.playback) :
               <<last.obs.playback[i].id>> = last.arg.anime_id
        THEN /\ ~last.none
             /\ last.val.id = <<"kodik_">> \o last.arg.anime_id
        ELSE last.none

\* C14: for every id, with or without the shiki_ prefix: when no playbackId is passed
\* and the playback lookup by catalog id yields no match, get_anime_episodes and
\* get_video_link query the playback adapter with id itself and return what it
\* returns, rather than [] / None without a query.
C14_EpisodeIdFallback ==
    last.op \in {"episodes", "video_link"} /\ last.obs.no_match =>
        /\ last.none = last.obs.by_anime_id.none
        /\ last.val = last.obs.by_anime_id.val

\* The positions of the episode list that carry exactly the (season, episode) asked
ExactEpisodes ==
    {i \in 1..Len(last.obs.episodes) :
        /\ last.obs.episodes[i].season = last.arg.season
        /\ last.obs.episodes[i].episode = last.arg.episode}

\* The first entry of the episode list is the least in (season, episode) order
FirstIsLeast ==
    \A i \in 1..Len(last.obs.episodes) :
        ~EpisodeBefore(last.obs.episodes[i], last.obs.episodes[1])

\* C15: KodikAPI.get_video_link(playbackId, s, e) returns the link of an episode with
\* exactly (season, episode) = (s, e) when one exists; otherwise the link of the
\* first episode in ascending (season, episode) order when the list is not empty;
\* and None exactly when the episode list is empty.
C15_VideoLinkSelection ==
    last.op = "kodik_video_link" =>
        /\ ~last.exc
        /\ last.none <=> last.obs.episodes = <<>>
        /\ ExactEpisodes # {} =>
               \E i \in ExactEpisodes : last.val = last.obs.episodes[i].link
        /\ ExactEpisodes = {} /\ last.obs.episodes # <<>> =>
               /\ last.val = last.obs.episodes[1].link
               /\ FirstIsLeast

\* No exact match in a list of two seasons: the first episode's link is returned
C15_Witness ==
    /\ last.op = "kodik_video_link"
    /\ ExactEpisodes = {}
    /\ Len(last.obs.episodes) >= 2
    /\ last.obs.episodes[1].season # last.obs.episodes[Len(last.obs.episodes)].season
    /\ last.val = last.obs.episodes[1].link

\* An exact match that is not the first episode of the list
C15_WitnessExact ==
    /\ last.op = "kodik_video_link"
    /\ ExactEpisodes # {}
    /\ 1 \notin ExactEpisodes
    /\ \E i \in ExactEpisodes : last.val = last.obs.episodes[i].link

\* C17: every record produced by convert_shikimori_format or
\* _convert_kodik_only_format, for any raw provider record, has a non-empty id that
\* starts with the source prefix (shiki_ or kodik_) and a non-empty title, also
\* when the raw record has neither a localized nor an original name.
C17_CanonicalRecord ==
    /\ last.op = "convert_shikimori" /\ ~last.exc
       => /\ Len(last.val.id) = 2 /\ last.val.id[1] = "shiki_" /\ last.val.id[2] # ""
          /\ last.val.title # ""
    /\ last.op = "convert_kodik_only" /\ ~last.exc
       => /\ Len(last.val.id) = 2 /\ last.val.id[1] = "kodik_" /\ last.val.id[2] # ""
          /\ last.val.title # ""

\* The id half of the canonical record invariant, which holds
CanonicalId ==
    last.op \in {"convert_shikimori", "convert_kodik_only"} /\ ~last.exc
    => /\ Len(last.val.id) = 2
       /\ last.val.id[1] = (IF last.op = "convert_shikimori" THEN "shiki_" ELSE "kodik_")
       /\ last.val.id[2] # ""

\* C18: for every month m in 1..12 and year y, get_current_season returns winter for
\* December, January and February (with year y + 1 for December), spring for March
\* to May, summer for June to August and fall for September to November.
C18_CurrentSeason ==
    last.op = "get_current_season" =>
        LET m == last.arg.month
            y == last.arg.year
        IN  /\ m \in {12, 1, 2} => last.val.season = "winter"
            /\ m \in {3, 4, 5} => last.val.season = "spring"
            /\ m \in {6, 7, 8} => last.val.season = "summer"
            /\ m \in {9, 10, 11} => last.val.season = "fall"
            /\ last.val.year = (IF m = 12 THEN y + 1 ELSE y)

\* The cache of the adapter the last call went to, before and after the call, and
\* the call's key
CacheBefore ==
    IF last.op = "kodik_request" THEN last.obs.kodik_cache ELSE last.obs.shiki_cache
CacheAfter == IF last.op = "kodik_request" THEN kodik_cache ELSE shiki_cache
RequestKey == IF last.op = "kodik_request" THEN KodikKey(last.arg) ELSE ShikiKey(last.arg)

\* The cache right after the call's store, before any eviction
Stored == CacheSet(CacheBefore, RequestKey, <<>>, last.t0)

\* The call missed the cache and stored an answer
StoredAnswer == \E i \in 1..Len(last.log) : last.log[i].kind \in {"kodik", "shiki"}

Entries(cache) == {cache[i] : i \in 1..Len(cache)}

\* Exactly floor(count / 4) entries of the stored cache are gone, none of them newer
\* than a surviving entry, and the entry just stored survives
QuartileEvicted ==
    /\ Len(CacheAfter) = Len(Stored) - (Len(Stored) \div 4)
    /\ Entries(CacheAfter) \subseteq Entries(Stored)
    /\ \A d \in Entries(Stored) \ Entries(CacheAfter), e \in Entries(CacheAfter) :
           d.ts <= e.ts
    /\ CacheHas(CacheAfter, RequestKey)

\* C19: after every completed _make_request of either adapter the response cache
\* holds at most max_size entries; when a store makes the count exceed max_size,
\* exactly floor(count / 4) entries are deleted, every deleted entry was stored no
\* later than every surviving one and the entry just stored survives; for every
\* max_size >= 1.
C19_CacheBound ==
    last.op \in {"kodik_request", "shiki_request"} =>
        /\ Len(CacheAfter) <= max_size
        /\ StoredAnswer /\ Len(Stored) > max_size => QuartileEvicted

\* The eviction half of the claim on its own, which holds
EvictionRule ==
    last.op \in {"kodik_request", "shiki_request"}
    /\ StoredAnswer /\ Len(Stored) > max_size => QuartileEvicted

\* A store that exceeded max_size and evicted an entry
EvictionHappened ==
    /\ last.op \in {"kodik_request", "shiki_request"}
    /\ StoredAnswer /\ Len(Stored) > max_size
    /\ Len(CacheAfter) < Len(Stored)

\* C20: after any sequence of enrichments over distinct catalog ids and distinct
\* poster URLs, neither the merge cache nor the poster-reachability cache holds more
\* than max_size entries (the oldest quartile is evicted once the ceiling is
\* exceeded, as in the adapter caches).
C20_EngineCachesBounded ==
    /\ Len(merge_cache) <= max_size
    /\ Cardinality(DOMAIN poster_cache) <= max_size

\* No enrichment ever removes an entry of the merge cache or of the poster cache
EngineCachesOnlyGrow ==
    [][/\ \A i \in 1..Len(merge_cache) : CacheHas(merge_cache', merge_cache[i].key)
       /\ DOMAIN poster_cache \subseteq DOMAIN poster_cache']_vars

-----------------------------------------------------------------------------
(* Properties of the third group of claims *)

\* The candidates probed by the last call, in the order the probes were sent
Probed == [i \in 1..Len(last.log) |-> last.log[i].key]

\* What get_token does, given the set of candidates whose probe answer counts as
\* good: none held, it probes 1, 2, ... up to the first good candidate and adopts
\* it, or probes all and returns None; with a token held it sends nothing
NegotiatedBy(good) ==
    IF last.obs.kodik_token # NoToken
    THEN /\ last.log = <<>>
         /\ kodik_token = last.obs.kodik_token
         /\ ~last.none /\ last.val = kodik_token
    ELSE LET stop == IF good = {} THEN NumTestTokens
                     ELSE CHOOSE i \in good : \A j \in good : i <= j
         IN  /\ Probed = [i \in 1..stop |-> <<ToString(i)>>]
             /\ \A i \in 1..Len(last.log) : last.log[i].kind = "token_probe"
             /\ kodik_token = (IF good = {} THEN NoToken ELSE stop)
             /\ last.none <=> good = {}
             /\ ~last.none => last.val = kodik_token

\* C21 as stated: a candidate counts when its probe returns 200 with a results key
\* present in the body, whatever its value
C21_Original ==
    last.op = "get_token" =>
        NegotiatedBy({i \in 1..NumTestTokens :
                        /\ last.obs.answers[i].status = 200
                        /\ last.obs.answers[i].results \in {"list", "empty", "null"}})

\* C21: get_token with no held token probes the candidates strictly in list order,
\* adopts the first whose probe returns 200 with a results value that is not null
\* (an empty list counts, a null or a missing key does not), sends no probe for a
\* later candidate, and returns None with the token unset when every candidate
\* fails; with a held token it sends no probe at all.
C21_TokenNegotiation ==
    last.op = "get_token" =>
        NegotiatedBy({i \in 1..NumTestTokens :
                        /\ last.obs.answers[i].status = 200
                        /\ last.obs.answers[i].results \in {"list", "empty"}})

\* The second candidate is adopted on an empty results list after the first failed,
\* and the third, which would have been accepted too, is not probed
C21_Witness ==
    /\ last.op = "get_token"
    /\ last.obs.kodik_token = NoToken
    /\ ~Adopts(last.obs.answers[1])
    /\ last.obs.answers[2] = [status |-> 200, results |-> "empty"]
    /\ Adopts(last.obs.answers[3])
    /\ kodik_token = 2
    /\ Len(last.log) = 2

\* A call with a token held
C21_WitnessHeld ==
    /\ last.op = "get_token"
    /\ last.obs.kodik_token # NoToken
    /\ \E i \in 1..NumTestTokens : Adopts(last.obs.answers[i])

\* The last call was an enrichment that missed the merge cache
EnrichedFresh ==
    /\ last.op = "enrich"
    /\ last.arg.id # NoId
    /\ ~(HadEntry /\ last.t0 - EntryBefore.ts < MergeTTL)

\* The playback lookups of the last call, in the order they were made
Lookups ==
    LET IsLookup(e) == e.kind = "lookup" IN SelectSeq(last.log, IsLookup)

\* The position in the log of the n-th lookup's return
LookupAt(n) ==
    CHOOSE i \in Events("lookup") : Cardinality({j \in Events("lookup") : j <= i}) = n

\* C22: on a merge-cache miss _enrich_with_kodik first looks up the playback source
\* by catalog id; the title lookup is made only after the id lookup returned None
\* or an empty list, with the localized title when it is non-empty and else the
\* original name, and not at all when both are empty; when the id lookup has
\* results, no title lookup is made and the merged record's kodik_id, link,
\* translation and quality are those of its first result.
C22_LookupOrder ==
    EnrichedFresh =>
        /\ Len(Lookups) \in {1, 2}
        /\ Lookups[1].key = <<"shikimori_id">>
        /\ \A i \in Events("kodik") :
               last.log[i].key[3] = "title" => i > LookupAt(1)
        /\ Len(Lookups) = 2 <=>
               ~Lookups[1].ok /\ (last.arg.russian # "" \/ last.arg.name # "")
        /\ Len(Lookups) = 2 =>
               Lookups[2].key = <<"title", IF last.arg.russian # "" THEN last.arg.russian
                                            ELSE last.arg.name>>
        /\ Lookups[1].ok /\ Events("error") = {} =>
               /\ ~last.exc
               /\ last.val.kodik_id = extract_kodik_data(Lookups[1].data).kodik_id
               /\ last.val.link = extract_kodik_data(Lookups[1].data).link
               /\ last.val.translation = extract_kodik_data(Lookups[1].data).translation
               /\ last.val.quality = extract_kodik_data(Lookups[1].data).quality

\* The id lookup found nothing and the title lookup used the original name, the
\* localized title being empty
C22_Witness ==
    /\ EnrichedFresh
    /\ Len(Lookups) = 2
    /\ last.arg.russian = ""
    /\ Lookups[2].key = <<"title", "Name">>
    /\ Lookups[2].ok

\* The id lookup had results: no title lookup, the fields of the first result
C22_WitnessById ==
    /\ EnrichedFresh
    /\ Len(Lookups) = 1 /\ Lookups[1].ok
    /\ Events("error") = {}
    /\ last.val.kodik_id = "k1"

\* The result recorded for the probe of url, false for a URL never probed
ProbeSucceeded(url) == url \in DOMAIN poster_cache /\ poster_cache[url]

\* Both poster fields of the returned record are url
PostersAre(url) ==
    /\ last.val.material_data.poster_url = url
    /\ last.val.material_data.anime_poster_url = url

\* The last enrichment merged a playback match into a record whose catalog poster
\* is non-empty, not the placeholder and free of error indicators
ArbitratedByProbe ==
    /\ MergedMatch
    /\ ~ShouldReplacePoster(get_poster_url(last.arg))

\* C23: with a playback match and a well-formed catalog poster, the merged poster is
\* the catalog poster if its probe succeeds (the playback poster is then not
\* probed), the playback poster if the catalog probe fails and the playback poster
\* is non-empty and its probe succeeds, and otherwise poster_url and
\* anime_poster_url are the fixed placeholder.
C23_ProbeArbitration ==
    ArbitratedByProbe =>
        LET catalog == get_poster_url(last.arg)
            playback == MergedWith[1].material_data.poster_url
        IN  /\ catalog \in DOMAIN poster_cache
            /\ ProbeSucceeded(catalog) =>
                   /\ PostersAre(catalog)
                   /\ \A i \in Events("head") : last.log[i].key # playback
            /\ ~ProbeSucceeded(catalog) /\ playback # <<>> /\ ProbeSucceeded(playback) =>
                   PostersAre(playback)
            /\ ~ProbeSucceeded(catalog) /\ (playback = <<>> \/ ~ProbeSucceeded(playback)) =>
                   PostersAre(PlaceholderURL)

\* The catalog probe failed and the playback poster, probed after it, replaced it
C23_Witness ==
    /\ ArbitratedByProbe
    /\ ~ProbeSucceeded(get_poster_url(last.arg))
    /\ PostersAre(KodikPoster)
    /\ Cardinality(Events("head")) = 2

\* Both probes failed: the placeholder
C23_WitnessPlaceholder ==
    /\ ArbitratedByProbe
    /\ Cardinality(Events("head")) = 2
    /\ PostersAre(PlaceholderURL)

\* C24: in a merged record with a playback match, episodes_count is the playback
\* source's episodes_count when that is a nonzero number, and the catalog record's
\* episodes when the playback value is 0 or absent.
C24_EpisodeCountMerge ==
    MergedMatch =>
        LET playback == MergedWith[1].episodes_count
        IN  IF playback # NoneInt /\ playback # 0
            THEN last.val.episodes_count = playback
            ELSE last.val.episodes_count = last.arg.episodes

\* The playback source says 0 episodes and the catalog's 24 are kept
C24_Witness ==
    /\ MergedMatch
    /\ MergedWith[1].episodes_count = 0
    /\ last.arg.episodes = 24
    /\ last.val.episodes_count = 24

\* The playback source's count replaces a different catalog count
C24_WitnessOverwrite ==
    /\ MergedMatch
    /\ MergedWith[1].episodes_count = 12
    /\ last.arg.episodes = 24
    /\ last.val.episodes_count = 12

\* The number of records search_anime enriches: min(20, n) of the n that passed
Capped == IF Len(last.obs.passed) < SearchEnrichCap THEN Len(last.obs.passed)
          ELSE SearchEnrichCap

\* The returned list is one record for each of the first min(20, n) records that
\* passed the filters, in their order, and every playback lookup by catalog id that
\* was sent is for one of them
FirstTwentyEnriched ==
    /\ ~last.exc
    /\ Len(last.val) = Capped
    /\ \A i \in 1..Len(last.val) : last.val[i].shikimori_id = last.obs.passed[i].id
    /\ \A i \in Events("kodik") :
           last.log[i].key[3] = "shikimori_id" =>
               \E j \in 1..Capped : last.log[i].key[4] = ToString(last.obs.passed[j].id)

\* C25: for every catalog response, search_anime enriches exactly the first
\* min(20, n) of the n records that pass the kind and year filters, in catalog
\* order, and returns exactly those enriched records in that order; records past
\* the 20th trigger no playback lookup.
C25_SearchCap == last.op = "search" => FirstTwentyEnriched

\* The cap on its own, for the searches in which no enrichment raised: it holds
CapRule == last.op = "search" /\ Events("error") = {} => FirstTwentyEnriched

\* More than 20 records passed and 20 were returned
CapReached ==
    /\ last.op = "search"
    /\ Len(last.obs.passed) > SearchEnrichCap
    /\ Len(last.val) = SearchEnrichCap
    /\ Events("kodik") # {}

\* C26: one call of ShikimoriAPI.get_seasonal_anime sends at most two catalog
\* requests: the season-scoped one and, only if that gave nothing, one relaxed
\* request scoped to the year alone, after it; if the relaxed request gives nothing
\* too the call returns [] and nothing else was sent.
C26_SeasonalRetryBounded ==
    last.op = "adapter_seasonal" =>
        /\ Cardinality(Events("shiki")) <= 2
        /\ Cardinality(ShikiRequests("seasonal")) <= 1
        /\ Cardinality(ShikiRequests("year")) <= 1
        /\ Events("shiki") = ShikiRequests("seasonal") \cup ShikiRequests("year")
        /\ ShikiRequests("year") # {} => last.obs.strict_nothing
        /\ \A i \in ShikiRequests("seasonal") : \A j \in ShikiRequests("year") : i < j
        /\ \A j \in ShikiRequests("year") :
               /\ Len(last.log[j].key) = 6
               /\ last.log[j].key[5] = "season"
               /\ last.log[j].key[6] = last.obs.year
        /\ last.obs.strict_nothing /\ last.obs.relaxed_nothing =>
               ~last.exc /\ last.val = <<>>

\* Both requests were sent, both gave nothing, and [] was returned
C26_Witness ==
    /\ last.op = "adapter_seasonal"
    /\ Cardinality(Events("shiki")) = 2
    /\ last.obs.strict_nothing /\ last.obs.relaxed_nothing
    /\ last.val = <<>>

\* The season-scoped request gave records and was the only one sent
C26_WitnessStrictOnly ==
    /\ last.op = "adapter_seasonal"
    /\ ~last.obs.strict_nothing
    /\ Cardinality(ShikiRequests("seasonal")) = 1
    /\ ShikiRequests("year") = {}
    /\ ~last.exc /\ last.val # <<>>

\* A check that found a result recorded for its URL returned that result and sent
\* no HEAD request; a check of the empty URL returned false, sent nothing and wrote
\* nothing
RecordedResultReturned ==
    last.op = "check" =>
        /\ last.obs.found =>
               /\ last.val = poster_cache[last.arg]
               /\ last.log = <<>>
        /\ last.arg = <<>> =>
               /\ last.val = FALSE
               /\ last.log = <<>>
               /\ <<>> \notin DOMAIN poster_cache

\* A recorded result is changed by no step other than clear_cache
RecordKept ==
    \A url \in DOMAIN poster_cache :
        poster_cache' = <<>> \/ (url \in DOMAIN poster_cache'
                                 /\ poster_cache'[url] = poster_cache[url])

\* C27: once _check_image_availability has recorded a result for a URL, every
\* later check of that URL returns that same result and sends no HEAD request, at
\* any later time, until clear_cache is called; an empty URL returns false without
\* a probe and without a cache write.
C27_ReachabilitySticky == [](RecordedResultReturned) /\ [][RecordKept]_vars

\* With the checks one at a time, as inside one enrichment (SpecEnrich), a
\* recorded result is never changed
StickyInSequence == [][RecordKept]_vars

\* A recorded result was returned without a probe, some time after it was recorded
StickyHit ==
    /\ last.op = "check"
    /\ last.obs.found
    /\ last.log = <<>>
    /\ ticks >= 1

\* C28: for any interleaving of get_token calls that all saw the token unset, once
\* the token has been set to a candidate it is never overwritten with a different
\* candidate unless it was first cleared by a 401/403 response or reset_token.
C28_HeldTokenStable ==
    [][kodik_token # NoToken /\ kodik_token' # NoToken =>
           kodik_token' = kodik_token]_vars

\* A call that found a token held returned it; a call that adopted returned the
\* candidate it set
TokenReturnedIsHeld ==
    last.op = "get_token" /\ ~last.none =>
        /\ last.val = kodik_token
        /\ last.obs.held => last.log = <<>>

\* Two calls that found the token unset are suspended at their probes
NegotiationsOverlap == \A t \in Callers : calls[t].pc = "probe"

\* The canonical record rec has the catalog fields of the raw catalog record raw
BuiltFrom(rec, raw) ==
    /\ rec.shikimori_id = raw.id
    /\ rec.title = OrStr(raw.russian, raw.name)
    /\ rec.title_orig = raw.name
    /\ rec.year = extract_year_from_date(raw.aired_on)
    /\ rec.material_data.anime_kind = raw.kind

\* get_anime_details fetched a detail record
DetailFetched == last.op = "details" /\ last.obs.fetched # <<>>

\* C29: whenever get_anime_details successfully fetches the detail record for a
\* catalog id, the record it returns is built from that fetched detail record,
\* whatever calls came before; an earlier listing-derived merge of the same id held
\* in the merge cache is not returned in its place.
C29_DetailsFromFetch ==
    DetailFetched => /\ ~last.exc /\ ~last.none
                     /\ BuiltFrom(last.val, last.obs.fetched[1])

\* The same for a fetched record with an id and no fresh merge of that id in the
\* merge cache: it holds
DetailsFromFetchWhenNotCached ==
    /\ DetailFetched
    /\ last.obs.fetched[1].id # NoId
    /\ ~(/\ CacheHas(last.merge_before, MergeKey(last.obs.fetched[1].id))
         /\ last.t0 - CacheGet(last.merge_before,
                               MergeKey(last.obs.fetched[1].id)).ts < MergeTTL)
    => /\ ~last.exc /\ ~last.none
       /\ BuiltFrom(last.val, last.obs.fetched[1])

\* The detail record of kind pv was fetched and the record returned is the merge of
\* the listing's record of the same id, of kind tv
ListingMergeReturned ==
    /\ DetailFetched
    /\ last.obs.fetched[1].kind = "pv"
    /\ ~last.none
    /\ last.val.material_data.anime_kind = "tv"
    /\ last.val.shikimori_id = last.obs.fetched[1].id

\* The enrichment fell back to the catalog-only record because of an exception
FellBack ==
    /\ last.op = "enrich"
    /\ Events("error") # {}
    /\ ~last.exc

\* The merge cache after an enrichment differs from the one before it only by the
\* entry of the enriched id, which then holds the record the enrichment returned,
\* and only if nothing raised; after a fallback it is the cache as it was
OnlyCompletedMergesStored ==
    last.op = "enrich" =>
        /\ merge_cache # last.merge_before =>
               /\ Events("error") = {}
               /\ ~last.exc
               /\ Rewritten
               /\ \A i \in 1..Len(last.merge_before) :
                      last.merge_before[i].key # MergeKey(last.arg.id) =>
                          CacheHas(merge_cache, last.merge_before[i].key)
                          /\ CacheGet(merge_cache, last.merge_before[i].key)
                                 = last.merge_before[i]
        /\ FellBack =>
               /\ merge_cache = last.merge_before
               /\ last.val = convert_shikimori_format(last.arg).val

\* The enrichment that follows a fallback, of the same id, makes the playback
\* lookup by catalog id
LookupAfterFallback ==
    /\ FellBack
    /\ ops' = ops + 1
    /\ last'.op = "enrich"
    /\ last'.arg.id = last.arg.id
    => LookedUpById'

\* C30: an entry merge_<id> is written only after _merge_anime_data returned
\* normally for that id; when enrichment falls back to the catalog-only record
\* because of an exception the merge cache is left unchanged, and the next
\* enrichment of that id performs the playback lookup again.
C30_OnlyCompletedMerges == [](OnlyCompletedMergesStored) /\ [][LookupAfterFallback]_vars

\* An enrichment fell back twice for the same id: the second looked the id up
\* again (answered from the playback adapter's cache), raised again, and the merge
\* cache still has no entry for the id
C30_Witness ==
    /\ ops = 2
    /\ FellBack
    /\ LookedUpById
    /\ Events("kodik") = {}
    /\ ~CacheHas(merge_cache, MergeKey(last.arg.id))
    /\ merge_cache = last.merge_before

\* A completed merge was stored
C30_WitnessStored ==
    /\ last.op = "enrich"
    /\ merge_cache # last.merge_before
    /\ Rewritten

====
